---------------------------- MODULE Spec2Model ----------------------------
(***************************************************************************)
(* Verification model of the CukaiPal tax engine                           *)
(* (cukaipal-mobile/src/engine/taxEngine.ts and yearConfigs.ts).           *)
(*                                                                         *)
(* Units.  Money is in whole ringgit.  A marginal rate is written in       *)
(* thousandths (0.245 is 245), so a tax amount is in thousandths of a      *)
(* ringgit (9400 ringgit is 9400000).  The arithmetic is exact; the        *)
(* rounding of IEEE doubles is outside the model.                          *)
(***************************************************************************)
EXTENDS Integers, Sequences, FiniteSets, TLC

VARIABLES
    \* --- progressive tax calculator (the dashboard's tax computation) ---
    year,          \* the year argument of the last calculateProgressiveTax call
    income,        \* its chargeableIncome argument
    tax,           \* its result, in thousandths
    brackets,      \* the local `brackets` it selected (<<>> on the early return)
    prevCall,      \* <<[income, tax]>> of the call before for the same year, or <<>>
    \* --- year configuration resolver ---
    resolved,      \* the last getYearTaxConfig calls, newest first: [year, config]
    \* --- category claim aggregator ---
    cat,           \* the CategoryConfig handed to computeCategoryData
    receiptList,   \* the receipt list handed to it
    stats,         \* the CategoryStats it returned for cat and receiptList
    \* --- relief configuration builder ---
    cfgYear,       \* the year argument of the last getYearConfig call
    cfgProfile,    \* its profile argument
    configs,       \* the CategoryConfig list it returned
    prevConfigs,   \* <<[year, profile, configs]>> of the call before, or <<>>
    \* --- dashboard (AppContext state and what DashboardScreen derives) ---
    selectedYear,  \* AppContext selectedYear
    userProfile,   \* AppContext userProfile
    storedReceipts,\* the receipt list in storage (NativeStorageAdapter)
    appReceipts,   \* AppContext receipts
    incomeMap,     \* AppContext incomeMap
    timezone,      \* the device's offset from UTC in hours
    dash,          \* the values DashboardScreen computed in its last render
    \* --- page menu (script.js) ---
    hasMenu,       \* the page has both .primary-nav and .nav-toggle
    loaded,        \* script.js has run
    bodyClasses,   \* document.body.classList
    navOpen,       \* nav.dataset.open ("" when unset)
    navAriaHidden, \* nav's aria-hidden attribute ("" when unset)
    toggleAriaExpanded, \* toggle's aria-expanded attribute ("" when unset)
    toggleClasses, \* toggle.classList
    innerWidth,    \* window.innerWidth
    clicks,        \* nav.dataset.open after the last load or resize and after each click since
    lastEvent,     \* "none", "load", "click" or "resize": what ran last
    \* --- local storage (NativeStorageAdapter and HybridStorageAdapter over AsyncStorage) ---
    asyncStorage, \* the AsyncStorage keys of the app: [receipts, incomeMap, userProfile, apiKey, lastBackup]
    calls, \* the adapter calls that were started and not yet forgotten, one per slot (<<>> when free)
    \* --- API client (apiClient.ts): the response interceptor and its token refresh ---
    isRefreshing, \* ApiClient.isRefreshing
    failedQueue, \* ApiClient.failedQueue: the requests whose promise waits for the refresh (0 is the POST /auth/refresh itself)
    requests, \* the requests of the callers: [st, retry, sends], retry being originalRequest._retry
    tokens, \* AsyncStorage @auth_token and @refresh_token (0 when absent)
    refresh, \* the refresh in progress: [pc, owner, newToken], or <<>>
    \* --- receipt OCR (receiptOCR.ts) ---
    ocrCall, \* the last call of the OCR service when it was extractTextFromImage: its arguments, what the OCR engines answered and its outcome (else <<>>)
    parseCall, \* the last call of the OCR service when it was parseReceiptText: its inputs and its result (else <<>>)
    \* --- cloud sync (CloudStorageAdapter) ---
    deviceReceipts, \* the receipts list in the AsyncStorage of the device
    serverReceipts, \* the receipts the server holds for the user
    syncInProgress, \* CloudStorageAdapter.syncInProgress
    lastSyncTime, \* CloudStorageAdapter.lastSyncTime: <<>> for null, <<1>> once a sync completed
    saveCall, \* the last CloudStorageAdapter.saveReceipt call: its receipt, its position, whether the upload succeeded (<<>> before the first)
    syncCall, \* the syncAll call in progress: its position and what the pull returned (<<>> when none)
    syncResult, \* how the last syncAll call ended and what it pushed (<<>> before the first)
    unsent  \* the receipts whose upload failed and which were neither saved again nor pushed since

taxVars == <<year, income, tax, brackets, prevCall>>
resolverVars == <<resolved>>
categoryVars == <<cat, receiptList, stats>>
configVars == <<cfgYear, cfgProfile, configs, prevConfigs>>
dashboardVars == <<selectedYear, userProfile, storedReceipts, appReceipts, incomeMap, timezone, dash>>
menuVars == <<hasMenu, loaded, bodyClasses, navOpen, navAriaHidden, toggleAriaExpanded, toggleClasses, innerWidth, clicks, lastEvent>>
storageVars == <<asyncStorage, calls>>
apiVars == <<isRefreshing, failedQueue, requests, tokens, refresh>>
ocrVars == <<ocrCall, parseCall>>
syncVars == <<deviceReceipts, serverReceipts, syncInProgress, lastSyncTime, saveCall, syncCall, syncResult, unsent>>
vars == <<taxVars, resolverVars, categoryVars, configVars, dashboardVars, menuVars, storageVars, apiVars, ocrVars, syncVars>>

\* The variables outside each part of the program.
outsideTax == <<resolverVars, categoryVars, configVars, dashboardVars, menuVars, storageVars, apiVars, ocrVars, syncVars>>
outsideResolver == <<taxVars, categoryVars, configVars, dashboardVars, menuVars, storageVars, apiVars, ocrVars, syncVars>>
outsideCategory == <<taxVars, resolverVars, configVars, dashboardVars, menuVars, storageVars, apiVars, ocrVars, syncVars>>
outsideConfig == <<taxVars, resolverVars, categoryVars, dashboardVars, menuVars, storageVars, apiVars, ocrVars, syncVars>>
outsideDashboard == <<taxVars, resolverVars, categoryVars, configVars, menuVars, storageVars, apiVars, ocrVars, syncVars>>
outsideMenu == <<taxVars, resolverVars, categoryVars, configVars, dashboardVars, storageVars, apiVars, ocrVars, syncVars>>
outsideStorage == <<taxVars, resolverVars, categoryVars, configVars, dashboardVars, menuVars, apiVars, ocrVars, syncVars>>
outsideApi == <<taxVars, resolverVars, categoryVars, configVars, dashboardVars, menuVars, storageVars, ocrVars, syncVars>>
outsideOcr == <<taxVars, resolverVars, categoryVars, configVars, dashboardVars, menuVars, storageVars, apiVars, syncVars>>
outsideSync == <<taxVars, resolverVars, categoryVars, configVars, dashboardVars, menuVars, storageVars, apiVars, ocrVars>>

(***************************************************************************)
(* Bounds of the model                                                     *)
(***************************************************************************)
MinYear == 2016
MaxYear == 2028
MaxIncome == 2500000
MaxReceipts == 3
MaxAppReceipts == 2
MaxYearChoices == 3
MaxClicks == 4
MaxCalls == 2
MaxRequests == 2

\* JavaScript's Infinity: larger than every income of the model.
Infinity == 2147483647




Min(a, b) == IF a <= b THEN a ELSE b
Max(a, b) == IF a >= b THEN a ELSE b

(***************************************************************************)
(* taxEngine.ts: TAX_BRACKETS                                              *)
(***************************************************************************)
\* The tables with the 24% and 24.5% rates of pre_2023 exchanged.
TAX_BRACKETS_RatesExchanged ==
    [post_2023 |-> <<
        [max |-> 5000,     rate |-> 0],
        [max |-> 20000,    rate |-> 10],
        [max |-> 35000,    rate |-> 30],
        [max |-> 50000,    rate |-> 60],
        [max |-> 70000,    rate |-> 110],
        [max |-> 100000,   rate |-> 190],
        [max |-> 400000,   rate |-> 250],
        [max |-> 600000,   rate |-> 260],
        [max |-> 2000000,  rate |-> 280],
        [max |-> Infinity, rate |-> 300] >>,
     pre_2023 |-> <<
        [max |-> 5000,     rate |-> 0],
        [max |-> 20000,    rate |-> 10],
        [max |-> 35000,    rate |-> 30],
        [max |-> 50000,    rate |-> 80],
        [max |-> 70000,    rate |-> 130],
        [max |-> 100000,   rate |-> 210],
        [max |-> 250000,   rate |-> 245],
        [max |-> 400000,   rate |-> 240],
        [max |-> 600000,   rate |-> 250],
        [max |-> 1000000,  rate |-> 260],
        [max |-> Infinity, rate |-> 280] >>]

TAX_BRACKETS ==
    [post_2023 |-> <<
        [max |-> 5000,     rate |-> 0],
        [max |-> 20000,    rate |-> 10],
        [max |-> 35000,    rate |-> 30],
        [max |-> 50000,    rate |-> 60],
        [max |-> 70000,    rate |-> 110],
        [max |-> 100000,   rate |-> 190],
        [max |-> 400000,   rate |-> 250],
        [max |-> 600000,   rate |-> 260],
        [max |-> 2000000,  rate |-> 280],
        [max |-> Infinity, rate |-> 300] >>,
     pre_2023 |-> <<
        [max |-> 5000,     rate |-> 0],
        [max |-> 20000,    rate |-> 10],
        [max |-> 35000,    rate |-> 30],
        [max |-> 50000,    rate |-> 80],
        [max |-> 70000,    rate |-> 130],
        [max |-> 100000,   rate |-> 210],
        [max |-> 250000,   rate |-> 240],
        [max |-> 400000,   rate |-> 245],
        [max |-> 600000,   rate |-> 250],
        [max |-> 1000000,  rate |-> 260],
        [max |-> Infinity, rate |-> 280] >>]

(***************************************************************************)
(* yearConfigs.ts: YEAR_CONFIGS (year, taxBrackets, categoryLimits and     *)
(* features of each entry)                                                 *)
(***************************************************************************)
Brackets2025 ==
    << [max |-> 5000,     rate |-> 0],
       [max |-> 20000,    rate |-> 10],
       [max |-> 35000,    rate |-> 30],
       [max |-> 50000,    rate |-> 60],
       [max |-> 70000,    rate |-> 110],
       [max |-> 100000,   rate |-> 190],
       [max |-> 400000,   rate |-> 250],
       [max |-> 600000,   rate |-> 260],
       [max |-> 2000000,  rate |-> 280],
       [max |-> Infinity, rate |-> 300] >>

Brackets2024 ==
    << [max |-> 5000,     rate |-> 0],
       [max |-> 20000,    rate |-> 10],
       [max |-> 35000,    rate |-> 30],
       [max |-> 50000,    rate |-> 60],
       [max |-> 70000,    rate |-> 110],
       [max |-> 100000,   rate |-> 190],
       [max |-> 400000,   rate |-> 250],
       [max |-> 600000,   rate |-> 260],
       [max |-> 2000000,  rate |-> 280],
       [max |-> Infinity, rate |-> 300] >>

Brackets2023 ==
    << [max |-> 5000,     rate |-> 0],
       [max |-> 20000,    rate |-> 10],
       [max |-> 35000,    rate |-> 30],
       [max |-> 50000,    rate |-> 60],
       [max |-> 70000,    rate |-> 110],
       [max |-> 100000,   rate |-> 190],
       [max |-> 400000,   rate |-> 250],
       [max |-> 600000,   rate |-> 260],
       [max |-> 2000000,  rate |-> 280],
       [max |-> Infinity, rate |-> 300] >>

Brackets2022 ==
    << [max |-> 5000,     rate |-> 0],
       [max |-> 20000,    rate |-> 10],
       [max |-> 35000,    rate |-> 30],
       [max |-> 50000,    rate |-> 80],
       [max |-> 70000,    rate |-> 130],
       [max |-> 100000,   rate |-> 210],
       [max |-> 250000,   rate |-> 240],
       [max |-> 400000,   rate |-> 245],
       [max |-> 600000,   rate |-> 250],
       [max |-> 1000000,  rate |-> 260],
       [max |-> Infinity, rate |-> 280] >>

Brackets2021 ==
    << [max |-> 5000,     rate |-> 0],
       [max |-> 20000,    rate |-> 10],
       [max |-> 35000,    rate |-> 30],
       [max |-> 50000,    rate |-> 80],
       [max |-> 70000,    rate |-> 130],
       [max |-> 100000,   rate |-> 210],
       [max |-> 250000,   rate |-> 240],
       [max |-> 400000,   rate |-> 245],
       [max |-> 600000,   rate |-> 250],
       [max |-> 1000000,  rate |-> 260],
       [max |-> Infinity, rate |-> 280] >>

Brackets2020 ==
    << [max |-> 5000,     rate |-> 0],
       [max |-> 20000,    rate |-> 10],
       [max |-> 35000,    rate |-> 30],
       [max |-> 50000,    rate |-> 80],
       [max |-> 70000,    rate |-> 130],
       [max |-> 100000,   rate |-> 210],
       [max |-> 250000,   rate |-> 240],
       [max |-> 400000,   rate |-> 245],
       [max |-> 600000,   rate |-> 250],
       [max |-> 1000000,  rate |-> 260],
       [max |-> Infinity, rate |-> 280] >>

Brackets2019 ==
    << [max |-> 5000,     rate |-> 0],
       [max |-> 20000,    rate |-> 10],
       [max |-> 35000,    rate |-> 30],
       [max |-> 50000,    rate |-> 80],
       [max |-> 70000,    rate |-> 130],
       [max |-> 100000,   rate |-> 210],
       [max |-> 250000,   rate |-> 240],
       [max |-> 400000,   rate |-> 245],
       [max |-> 600000,   rate |-> 250],
       [max |-> 1000000,  rate |-> 260],
       [max |-> Infinity, rate |-> 280] >>

\* yearConfigs.ts lines 66-89
CategoryLimits2025 ==
    [lifestyle |-> 2500, sports |-> 1000, medical |-> 10000,
     medicalParents |-> 8000, educationSelf |-> 7000, insuranceEdMed |-> 3000,
     prs |-> 3000, sspn |-> 8000, childcare |-> 3000,
     breastfeeding |-> 1000, disabledEquip |-> 6000, ev |-> 2500,
     socso |-> 350, lifeInsurance |-> 7000, spouse |-> 4000,
     disabledSelf |-> 6000, disabledSpouse |-> 5000, childU18 |-> 2000,
     childPreU |-> 2000, childDegree |-> 8000, childDisabled |-> 6000,
     childDisabledDiploma |-> 14000]

\* yearConfigs.ts lines 90-96
Features2025 ==
    [hasSportsSeparate |-> TRUE, hasDental |-> TRUE,
     hasChildDev |-> TRUE, hasEvCharging |-> TRUE,
     medicalSharedPoolLimit |-> 1000]

\* yearConfigs.ts lines 115-138
CategoryLimits2024 ==
    [lifestyle |-> 2500, sports |-> 1000, medical |-> 10000,
     medicalParents |-> 8000, educationSelf |-> 7000, insuranceEdMed |-> 3000,
     prs |-> 3000, sspn |-> 8000, childcare |-> 3000,
     breastfeeding |-> 1000, disabledEquip |-> 6000, ev |-> 2500,
     socso |-> 350, lifeInsurance |-> 7000, spouse |-> 4000,
     disabledSelf |-> 6000, disabledSpouse |-> 5000, childU18 |-> 2000,
     childPreU |-> 2000, childDegree |-> 8000, childDisabled |-> 6000,
     childDisabledDiploma |-> 14000]

\* yearConfigs.ts lines 139-145
Features2024 ==
    [hasSportsSeparate |-> TRUE, hasDental |-> TRUE,
     hasChildDev |-> TRUE, hasEvCharging |-> TRUE,
     medicalSharedPoolLimit |-> 1000]

\* yearConfigs.ts lines 164-187
CategoryLimits2023 ==
    [lifestyle |-> 2500, sports |-> 0, medical |-> 10000,
     medicalParents |-> 8000, educationSelf |-> 7000, insuranceEdMed |-> 3000,
     prs |-> 3000, sspn |-> 8000, childcare |-> 3000,
     breastfeeding |-> 1000, disabledEquip |-> 6000, ev |-> 2500,
     socso |-> 350, lifeInsurance |-> 7000, spouse |-> 4000,
     disabledSelf |-> 6000, disabledSpouse |-> 5000, childU18 |-> 2000,
     childPreU |-> 2000, childDegree |-> 8000, childDisabled |-> 6000,
     childDisabledDiploma |-> 14000]

\* yearConfigs.ts lines 188-194
Features2023 ==
    [hasSportsSeparate |-> FALSE, hasDental |-> FALSE,
     hasChildDev |-> TRUE, hasEvCharging |-> TRUE,
     medicalSharedPoolLimit |-> 1000]

\* yearConfigs.ts lines 214-237
CategoryLimits2022 ==
    [lifestyle |-> 2500, sports |-> 0, medical |-> 8000,
     medicalParents |-> 8000, educationSelf |-> 7000, insuranceEdMed |-> 3000,
     prs |-> 3000, sspn |-> 8000, childcare |-> 3000,
     breastfeeding |-> 1000, disabledEquip |-> 6000, ev |-> 2500,
     socso |-> 350, lifeInsurance |-> 7000, spouse |-> 4000,
     disabledSelf |-> 6000, disabledSpouse |-> 5000, childU18 |-> 2000,
     childPreU |-> 2000, childDegree |-> 8000, childDisabled |-> 6000,
     childDisabledDiploma |-> 14000]

\* yearConfigs.ts lines 238-244
Features2022 ==
    [hasSportsSeparate |-> FALSE, hasDental |-> FALSE,
     hasChildDev |-> FALSE, hasEvCharging |-> TRUE,
     medicalSharedPoolLimit |-> 1000]

\* yearConfigs.ts lines 264-287
CategoryLimits2021 ==
    [lifestyle |-> 2500, sports |-> 500, medical |-> 8000,
     medicalParents |-> 8000, educationSelf |-> 7000, insuranceEdMed |-> 3000,
     prs |-> 3000, sspn |-> 8000, childcare |-> 3000,
     breastfeeding |-> 1000, disabledEquip |-> 6000, ev |-> 0,
     socso |-> 350, lifeInsurance |-> 7000, spouse |-> 4000,
     disabledSelf |-> 6000, disabledSpouse |-> 5000, childU18 |-> 2000,
     childPreU |-> 2000, childDegree |-> 8000, childDisabled |-> 6000,
     childDisabledDiploma |-> 14000]

\* yearConfigs.ts lines 288-294
Features2021 ==
    [hasSportsSeparate |-> FALSE, hasDental |-> FALSE,
     hasChildDev |-> FALSE, hasEvCharging |-> FALSE,
     medicalSharedPoolLimit |-> 1000]

\* yearConfigs.ts lines 314-337
CategoryLimits2020 ==
    [lifestyle |-> 2500, sports |-> 0, medical |-> 8000,
     medicalParents |-> 8000, educationSelf |-> 7000, insuranceEdMed |-> 3000,
     prs |-> 3000, sspn |-> 8000, childcare |-> 3000,
     breastfeeding |-> 1000, disabledEquip |-> 6000, ev |-> 0,
     socso |-> 350, lifeInsurance |-> 7000, spouse |-> 4000,
     disabledSelf |-> 6000, disabledSpouse |-> 5000, childU18 |-> 2000,
     childPreU |-> 2000, childDegree |-> 8000, childDisabled |-> 6000,
     childDisabledDiploma |-> 14000]

\* yearConfigs.ts lines 338-344
Features2020 ==
    [hasSportsSeparate |-> FALSE, hasDental |-> FALSE,
     hasChildDev |-> FALSE, hasEvCharging |-> FALSE,
     medicalSharedPoolLimit |-> 1000]

\* yearConfigs.ts lines 364-387
CategoryLimits2019 ==
    [lifestyle |-> 2500, sports |-> 0, medical |-> 8000,
     medicalParents |-> 8000, educationSelf |-> 7000, insuranceEdMed |-> 3000,
     prs |-> 3000, sspn |-> 8000, childcare |-> 3000,
     breastfeeding |-> 1000, disabledEquip |-> 6000, ev |-> 0,
     socso |-> 350, lifeInsurance |-> 7000, spouse |-> 4000,
     disabledSelf |-> 6000, disabledSpouse |-> 5000, childU18 |-> 2000,
     childPreU |-> 2000, childDegree |-> 8000, childDisabled |-> 6000,
     childDisabledDiploma |-> 14000]

\* yearConfigs.ts lines 388-394
Features2019 ==
    [hasSportsSeparate |-> FALSE, hasDental |-> FALSE,
     hasChildDev |-> FALSE, hasEvCharging |-> FALSE,
     medicalSharedPoolLimit |-> 1000]

YEAR_CONFIGS ==
    (2025 :> [year |-> 2025, taxBrackets |-> Brackets2025,
             categoryLimits |-> CategoryLimits2025, features |-> Features2025]) @@
    (2024 :> [year |-> 2024, taxBrackets |-> Brackets2024,
             categoryLimits |-> CategoryLimits2024, features |-> Features2024]) @@
    (2023 :> [year |-> 2023, taxBrackets |-> Brackets2023,
             categoryLimits |-> CategoryLimits2023, features |-> Features2023]) @@
    (2022 :> [year |-> 2022, taxBrackets |-> Brackets2022,
             categoryLimits |-> CategoryLimits2022, features |-> Features2022]) @@
    (2021 :> [year |-> 2021, taxBrackets |-> Brackets2021,
             categoryLimits |-> CategoryLimits2021, features |-> Features2021]) @@
    (2020 :> [year |-> 2020, taxBrackets |-> Brackets2020,
             categoryLimits |-> CategoryLimits2020, features |-> Features2020]) @@
    (2019 :> [year |-> 2019, taxBrackets |-> Brackets2019,
             categoryLimits |-> CategoryLimits2019, features |-> Features2019])

(***************************************************************************)
(* yearConfigs.ts: getYearTaxConfig, getTaxBrackets                        *)
(***************************************************************************)
\* The least element of a non-empty set of integers.
SetMin(S) == CHOOSE x \in S : \A y \in S : x <= y

\* Object.keys(obj).map(Number): integer-like keys come in ascending order.
RECURSIVE KeysAscending(_)
KeysAscending(S) ==
    IF S = {} THEN <<>>
    ELSE <<SetMin(S)>> \o KeysAscending(S \ {SetMin(S)})

ObjectKeys(obj) == KeysAscending(DOMAIN obj)

\* The comparators handed to Array.prototype.sort, by name.
Compare(cmp, a, b) == IF cmp = "descending" THEN b - a ELSE a - b

\* Array.prototype.sort(cmp): x is placed before the first element y of the
\* sorted rest with cmp(x, y) <= 0.
RECURSIVE InsertSorted(_, _, _)
InsertSorted(x, s, cmp) ==
    IF s = <<>> THEN <<x>>
    ELSE IF Compare(cmp, x, Head(s)) <= 0 THEN <<x>> \o s
    ELSE <<Head(s)>> \o InsertSorted(x, Tail(s), cmp)

RECURSIVE Sort(_, _)
Sort(s, cmp) ==
    IF s = <<>> THEN <<>>
    ELSE InsertSorted(Head(s), Sort(Tail(s), cmp), cmp)

\* A slip of the comparator: the keys sorted ascending, so that years[0] is
\* the oldest year.
getYearTaxConfig_SortAscending(y) ==
    IF y \in DOMAIN YEAR_CONFIGS
    THEN YEAR_CONFIGS[y]
    ELSE LET years == Sort(ObjectKeys(YEAR_CONFIGS), "ascending")
             fallbackYear == IF y > years[1] THEN years[1] ELSE years[Len(years)]
         IN  YEAR_CONFIGS[fallbackYear]

getYearTaxConfig(y) ==
    IF y \in DOMAIN YEAR_CONFIGS
    THEN YEAR_CONFIGS[y]
    ELSE LET years == Sort(ObjectKeys(YEAR_CONFIGS), "descending")
             fallbackYear == IF y > years[1] THEN years[1] ELSE years[Len(years)]
         IN  YEAR_CONFIGS[fallbackYear]

getSupportedYears == Sort(ObjectKeys(YEAR_CONFIGS), "descending")

getTaxBrackets(y) == getYearTaxConfig(y).taxBrackets

getCategoryLimits(y) == getYearTaxConfig(y).categoryLimits

getYearFeatures(y) == getYearTaxConfig(y).features

(***************************************************************************)
(* taxEngine.ts: calculateProgressiveTax                                   *)
(***************************************************************************)
\* line 415, with the cut-over year one too late
selectBrackets_Cutover2024(y) ==
    IF y >= 2024 THEN TAX_BRACKETS.post_2023 ELSE TAX_BRACKETS.pre_2023

\* line 415: const brackets = year >= 2023 ? post_2023 : pre_2023
selectBrackets(y) ==
    IF y >= 2023 THEN TAX_BRACKETS.post_2023 ELSE TAX_BRACKETS.pre_2023

\* lines 416-428: the for loop from index i on, with its locals tax and
\* previousMax.
RECURSIVE BracketLoop(_, _, _, _, _)
BracketLoop(bs, chargeableIncome, i, taxSoFar, previousMax) ==
    IF i > Len(bs) THEN taxSoFar
    ELSE IF chargeableIncome > previousMax
         THEN LET b == bs[i]
                  taxableInThisBracket == Min(chargeableIncome, b.max) - previousMax
              IN  BracketLoop(bs, chargeableIncome, i + 1,
                              taxSoFar + taxableInThisBracket * b.rate, b.max)
         ELSE taxSoFar

\* The loop with `tax = ...` written for `tax += ...`.
RECURSIVE BracketLoop_Assign(_, _, _, _, _)
BracketLoop_Assign(bs, chargeableIncome, i, taxSoFar, previousMax) ==
    IF i > Len(bs) THEN taxSoFar
    ELSE IF chargeableIncome > previousMax
         THEN LET b == bs[i]
                  taxableInThisBracket == Min(chargeableIncome, b.max) - previousMax
              IN  BracketLoop_Assign(bs, chargeableIncome, i + 1,
                                     taxableInThisBracket * b.rate, b.max)
         ELSE taxSoFar

calculateProgressiveTax_Assign(chargeableIncome, y) ==
    IF chargeableIncome <= 5000 THEN 0
    ELSE BracketLoop_Assign(selectBrackets(y), chargeableIncome, 1, 0, 0)

\* The early return with a digit too many: `chargeableIncome <= 50000`.
calculateProgressiveTax_Threshold(chargeableIncome, y) ==
    IF chargeableIncome <= 50000 THEN 0
    ELSE BracketLoop(selectBrackets(y), chargeableIncome, 1, 0, 0)

calculateProgressiveTax(chargeableIncome, y) ==
    IF chargeableIncome <= 5000 THEN 0
    ELSE BracketLoop(selectBrackets(y), chargeableIncome, 1, 0, 0)

\* The local `brackets` of a call: not reached on the early return.
bracketsOfCall(chargeableIncome, y) ==
    IF chargeableIncome <= 5000 THEN <<>> ELSE selectBrackets(y)

(***************************************************************************)
(* taxEngine.ts: DEDUCTIBLES.  subLimit 0 stands for an absent subLimit:   *)
(* the engine tests `if (item.subLimit)`, which is false for both.         *)
(***************************************************************************)
Item(id, parent, subLimit) == [id |-> id, parent |-> parent, subLimit |-> subLimit]

DEDUCTIBLES ==
    [lifestyle_books        |-> Item("lifestyle_books", "lifestyle", 0),
     lifestyle_tech         |-> Item("lifestyle_tech", "lifestyle", 0),
     lifestyle_internet     |-> Item("lifestyle_internet", "lifestyle", 0),
     lifestyle_gym_legacy   |-> Item("lifestyle_gym", "lifestyle", 0),
     sports_equip           |-> Item("sports_equip", "sports", 0),
     sports_facility        |-> Item("sports_facility", "sports", 0),
     sports_training        |-> Item("sports_training", "sports", 0),
     sports_extra_legacy    |-> Item("sports_extra_legacy", "sports_extra", 0),
     medical_serious        |-> Item("medical_serious", "medical", 0),
     medical_fertility      |-> Item("medical_fertility", "medical", 0),
     medical_vax            |-> Item("medical_vax", "medical", 1000),
     medical_checkup        |-> Item("medical_checkup", "medical", 1000),
     medical_dental         |-> Item("medical_dental", "medical", 1000),
     medical_child_dev      |-> Item("medical_child_dev", "medical", 4000),
     parents_treatment      |-> Item("parents_treatment", "medical_parents", 0),
     education_self         |-> Item("education_self", "education_self", 0),
     prs_annuity            |-> Item("prs_annuity", "prs", 0),
     insurance_ed_med       |-> Item("insurance_ed_med", "insurance_ed_med", 0),
     socso                  |-> Item("socso", "socso", 0),
     child_sspn             |-> Item("child_sspn", "sspn", 0),
     child_care             |-> Item("child_care", "childcare", 0),
     child_breastfeeding    |-> Item("child_breastfeeding", "breastfeeding", 0),
     relief_spouse          |-> Item("relief_spouse", "spouse", 0),
     relief_alimony         |-> Item("relief_alimony", "spouse", 0),
     relief_disabled_self   |-> Item("relief_disabled_self", "disabled_self", 0),
     relief_disabled_spouse |-> Item("relief_disabled_spouse", "disabled_spouse", 0),
     relief_child_u18       |-> Item("relief_child_u18", "child_relief", 0),
     relief_child_preu      |-> Item("relief_child_preu", "child_relief", 0),
     relief_child_high      |-> Item("relief_child_high", "child_relief", 0),
     relief_disabled_equip  |-> Item("relief_disabled_equip", "disabled_equip", 0),
     ev_install             |-> Item("ev_install", "ev", 0),
     tech_special_item      |-> Item("tech_special_item", "tech_special", 0),
     tourism                |-> Item("tourism", "tourism", 0),
     life_insurance         |-> Item("life_insurance", "life_insurance", 0)]

(***************************************************************************)
(* taxEngine.ts: getYearConfig.  A CategoryConfig keeps the fields the     *)
(* engine computes with: id, limit, items, sharedPools, isAutomatic.       *)
(***************************************************************************)
Category(id, limit, items, sharedPools, isAutomatic) ==
    [id |-> id, limit |-> limit, items |-> items,
     sharedPools |-> sharedPools, isAutomatic |-> isAutomatic]

\* `if (c) configs.push(x)`
PushIf(c, x) == IF c THEN <<x>> ELSE <<>>

\* lines 160-166
childLimitOf(profile) ==
      (IF profile.kidsUnder18 > 0 THEN profile.kidsUnder18 * 2000 ELSE 0)
    + (IF profile.kidsPreU > 0 THEN profile.kidsPreU * 2000 ELSE 0)
    + (IF profile.kidsDegree > 0 THEN profile.kidsDegree * 8000 ELSE 0)
    + (IF profile.kidsDisabled > 0 THEN profile.kidsDisabled * 6000 ELSE 0)
    + (IF profile.kidsDisabledDiploma > 0
          THEN profile.kidsDisabledDiploma * 14000 ELSE 0)

\* line 113 without the alimony alternative
spouseIncluded_NotWorkingOnly(profile) ==
    profile.status = "married" /\ ~profile.spouseWorking

\* line 113: the condition of the Spouse / Alimony category
spouseIncluded(profile) ==
    profile.status = "married" /\ (~profile.spouseWorking \/ profile.alimony)

\* line 323 replaced by an unconditional push
childcareIncluded_Always(profile) == TRUE

\* line 323: the condition of the Childcare Fees category
childcareIncluded(profile) ==
    childLimitOf(profile) > 0 \/ profile.kidsDisabled > 0

\* lines 350-354: the condition of the Disabled Support Equipment category
disabledEquipIncluded(profile) ==
    \/ profile.selfDisabled
    \/ (profile.status = "married" /\ profile.spouseDisabled)
    \/ profile.kidsDisabled > 0

\* line 230 with the limit of 2023 for every year
medLimitOf_Flat(y) == 10000

\* line 230: medLimit
medLimitOf(y) == IF y >= 2023 THEN 10000 ELSE 8000

getYearConfig(y, profile) ==
    LET D == DEDUCTIBLES
        childLimit == childLimitOf(profile)
        lsItems == <<D.lifestyle_books, D.lifestyle_tech, D.lifestyle_internet>>
                   \o PushIf(y < 2024, D.lifestyle_gym_legacy)
        medLimit == medLimitOf(y)
        medItems == <<D.medical_serious, D.medical_fertility,
                      D.medical_vax, D.medical_checkup>>
                    \o PushIf(y >= 2024, D.medical_dental)
                    \o PushIf(y >= 2023, D.medical_child_dev)
        medSharedPool == [limit |-> 1000,
                          items |-> <<"medical_checkup", "medical_vax", "medical_dental">>]
    IN
    \* Spouse / Alimony
       PushIf(spouseIncluded(profile),
              Category("spouse", 4000, <<D.relief_spouse, D.relief_alimony>>, <<>>, TRUE))
    \* Disabled Individual
    \o PushIf(profile.selfDisabled,
              Category("disabled_self", 6000, <<D.relief_disabled_self>>, <<>>, TRUE))
    \* Disabled Spouse
    \o PushIf(profile.status = "married" /\ profile.spouseDisabled,
              Category("disabled_spouse", 5000, <<D.relief_disabled_spouse>>, <<>>, TRUE))
    \* Child Relief
    \o PushIf(childLimit > 0,
              Category("child_relief", childLimit, <<D.relief_child_u18>>, <<>>, TRUE))
    \* Lifestyle
    \o <<Category("lifestyle", 2500, lsItems, <<>>, FALSE)>>
    \* Sports
    \o (IF y >= 2024
        THEN <<Category("sports", 1000,
                        <<D.sports_equip, D.sports_facility, D.sports_training>>,
                        <<>>, FALSE)>>
        ELSE IF y >= 2021
        THEN <<Category("sports_extra", 500, <<D.sports_extra_legacy>>, <<>>, FALSE)>>
        ELSE <<>>)
    \* Medical (Self, Spouse & Child)
    \o <<Category("medical", medLimit, medItems, <<medSharedPool>>, FALSE)>>
    \* Medical (Parents)
    \o <<Category("medical_parents", 8000, <<D.parents_treatment>>, <<>>, FALSE)>>
    \* Education Fees (Self)
    \o <<Category("education_self", 7000, <<D.education_self>>, <<>>, FALSE)>>
    \* Education/Medical Insurance
    \o <<Category("insurance_ed_med", 3000, <<D.insurance_ed_med>>, <<>>, FALSE)>>
    \* PRS / Annuity
    \o <<Category("prs", 3000, <<D.prs_annuity>>, <<>>, FALSE)>>
    \* SSPN Savings
    \o <<Category("sspn", 8000, <<D.child_sspn>>, <<>>, FALSE)>>
    \* Childcare Fees
    \o PushIf(childcareIncluded(profile),
              Category("childcare", 3000, <<D.child_care>>, <<>>, FALSE))
    \* Breastfeeding Equipment
    \o <<Category("breastfeeding", 1000, <<D.child_breastfeeding>>, <<>>, FALSE)>>
    \* Disabled Support Equipment
    \o PushIf(disabledEquipIncluded(profile),
              Category("disabled_equip", 6000, <<D.relief_disabled_equip>>, <<>>, FALSE))
    \* EV Charging Facility
    \o PushIf(y >= 2022,
              Category("ev", 2500, <<D.ev_install>>, <<>>, FALSE))
    \* SOCSO / EIS
    \o <<Category("socso", 350, <<D.socso>>, <<>>, FALSE)>>
    \* Life Insurance / EPF
    \o <<Category("life_insurance", 7000, <<D.life_insurance>>, <<>>, FALSE)>>

(***************************************************************************)
(* taxEngine.ts: computeCategoryData.  A Receipt keeps the fields the      *)
(* engine reads: status, amount, category, subCategory.                    *)
(***************************************************************************)
\* The sum of a sequence of integers.
RECURSIVE SumSeq(_)
SumSeq(s) == IF s = <<>> THEN 0 ELSE Head(s) + SumSeq(Tail(s))

RECURSIVE Gcd(_, _)
Gcd(a, b) == IF b = 0 THEN a ELSE Gcd(b, a % b)

\* A non-negative rational number num/den in lowest terms: the value of a
\* JavaScript number that is not an integer of the model.
Ratio(num, den) ==
    LET g == Gcd(num, den) IN [num |-> num \div g, den |-> den \div g]

\* Math.min of two rationals
MinRatio(p, q) == IF p.num * q.den <= q.num * p.den THEN p ELSE q

\* line 447 without the status test
countsReceipt_AnyStatus(categoryConfig, r) ==
    r.category = categoryConfig.id

\* line 447: the receipts that enter itemTotals
countsReceipt(categoryConfig, r) ==
    r.category = categoryConfig.id /\ r.status = "verified"

\* lines 448-449 without the clamp at zero
safeAmt_Unclamped(r) == r.amount

\* lines 448-449: amt = parseFloat(r.amount.toString()) || 0;
\* safeAmt = Math.max(0, amt)
safeAmt(r) == Max(0, r.amount)

\* lines 445-452: itemTotals, a map from the subCategory ids seen to the
\* sum of their safe amounts, built receipt by receipt.
RECURSIVE itemTotalsOf(_, _, _)
itemTotalsOf(categoryConfig, receipts, itemTotals) ==
    IF receipts = <<>> THEN itemTotals
    ELSE LET r == Head(receipts)
             old == IF r.subCategory \in DOMAIN itemTotals
                    THEN itemTotals[r.subCategory] ELSE 0
             next == IF countsReceipt(categoryConfig, r)
                     THEN [k \in DOMAIN itemTotals \cup {r.subCategory} |->
                              IF k = r.subCategory THEN old + safeAmt(r)
                              ELSE itemTotals[k]]
                     ELSE itemTotals
         IN  itemTotalsOf(categoryConfig, Tail(receipts), next)

\* p.items.includes(id)
Includes(s, x) == \E i \in 1 .. Len(s) : s[i] = x

\* findIndex: the first index whose pool lists the id, 0 when there is none
\* (JavaScript's -1).
findIndex(pools, id) ==
    IF \E i \in 1 .. Len(pools) : Includes(pools[i].items, id)
    THEN CHOOSE i \in 1 .. Len(pools) :
            /\ Includes(pools[i].items, id)
            /\ \A j \in 1 .. i - 1 : ~Includes(pools[j].items, id)
    ELSE 0

\* line 464 without the clamp
clampToSubLimit_Off(item, amount) == amount

\* line 464: if (item.subLimit) amount = Math.min(amount, item.subLimit)
clampToSubLimit(item, amount) ==
    IF item.subLimit # 0 THEN Min(amount, item.subLimit) ELSE amount

\* The loop body with totalSpent accumulated after the clamp.
itemStep_SpentAfterClamp(acc, item, itemTotals) ==
    LET raw == IF item.id \in DOMAIN itemTotals THEN itemTotals[item.id] ELSE 0
        amount == clampToSubLimit(item, raw)
        poolIndex == findIndex(acc.sharedPoolUsage, item.id)
    IN  IF poolIndex >= 1
        THEN [acc EXCEPT !.totalSpent = @ + amount,
                         !.sharedPoolUsage[poolIndex].used = @ + amount]
        ELSE [acc EXCEPT !.totalSpent = @ + amount,
                         !.validClaim = @ + amount]

\* lines 461-471: one turn of categoryConfig.items.forEach, on the locals
\* validClaim, totalSpent and sharedPoolUsage.
itemStep(acc, item, itemTotals) ==
    LET raw == IF item.id \in DOMAIN itemTotals THEN itemTotals[item.id] ELSE 0
        amount == clampToSubLimit(item, raw)
        poolIndex == findIndex(acc.sharedPoolUsage, item.id)
    IN  IF poolIndex >= 1
        THEN [acc EXCEPT !.totalSpent = @ + raw,
                         !.sharedPoolUsage[poolIndex].used = @ + amount]
        ELSE [acc EXCEPT !.totalSpent = @ + raw,
                         !.validClaim = @ + amount]

RECURSIVE itemsLoop(_, _, _)
itemsLoop(acc, items, itemTotals) ==
    IF items = <<>> THEN acc
    ELSE itemsLoop(itemStep(acc, Head(items), itemTotals), Tail(items), itemTotals)

\* line 474: Math.min(pool.used, pool.limit)
poolClaim(pool) == Min(pool.used, pool.limit)

\* lines 456-459 with the pool itself put into sharedPoolUsage
\* (pool.used = 0; return pool).
poolUsageEntry_InPlace(pool) ==
    [object |-> "input", limit |-> pool.limit, items |-> pool.items, used |-> 0]

\* lines 456-459: ({...pool, used: 0}), a new object with the fields of the
\* pool and used 0.  `object` tells whether the entry is the caller's pool
\* object ("input") or an object of the call ("copy").
poolUsageEntry(pool) ==
    [object |-> "copy", limit |-> pool.limit, items |-> pool.items, used |-> 0]

\* lines 445-471: the locals validClaim, totalSpent and sharedPoolUsage
\* after categoryConfig.items.forEach.
itemsPass(categoryConfig, receipts) ==
    LET itemTotals == itemTotalsOf(categoryConfig, receipts, <<>>)
        sharedPoolUsage ==
            [i \in 1 .. Len(categoryConfig.sharedPools) |->
                poolUsageEntry(categoryConfig.sharedPools[i])]
    IN  itemsLoop([validClaim |-> 0, totalSpent |-> 0,
                   sharedPoolUsage |-> sharedPoolUsage],
                  categoryConfig.items, itemTotals)

\* lines 445-483: the receipt-driven path
computeFromReceipts(categoryConfig, receipts) ==
    LET acc == itemsPass(categoryConfig, receipts)
        validClaim == acc.validClaim
            + SumSeq([i \in 1 .. Len(acc.sharedPoolUsage) |->
                         poolClaim(acc.sharedPoolUsage[i])])
        finalClaimable == Min(validClaim, categoryConfig.limit)
    IN  [claimable   |-> finalClaimable,
         remaining   |-> categoryConfig.limit - finalClaimable,
         percent     |-> MinRatio(Ratio(finalClaimable * 100, categoryConfig.limit),
                                  Ratio(100, 1)),
         totalSpent  |-> acc.totalSpent,
         isAutomatic |-> FALSE]

\* The caller's categoryConfig object after a call: the call writes only
\* to the entries of sharedPoolUsage (line 467), so a shared pool of the
\* config changes exactly when its entry is the pool object itself.
configAfterCall(categoryConfig, receipts) ==
    IF categoryConfig.isAutomatic THEN categoryConfig
    ELSE LET usage == itemsPass(categoryConfig, receipts).sharedPoolUsage
         IN  [categoryConfig EXCEPT !.sharedPools =
                 [i \in 1 .. Len(categoryConfig.sharedPools) |->
                     IF usage[i].object = "input"
                     THEN [limit |-> usage[i].limit, items |-> usage[i].items,
                           used |-> usage[i].used]
                     ELSE categoryConfig.sharedPools[i]]]

\* The function without its short-circuit for automatic categories.
computeCategoryData_NoShortCircuit(categoryConfig, receipts) ==
    computeFromReceipts(categoryConfig, receipts)

\* lines 431-484.  isAutomatic is absent (FALSE here) in the result of the
\* receipt-driven path.
computeCategoryData(categoryConfig, receipts) ==
    IF categoryConfig.isAutomatic
    THEN [claimable   |-> categoryConfig.limit,
          remaining   |-> 0,
          percent     |-> Ratio(100, 1),
          totalSpent  |-> categoryConfig.limit,
          isAutomatic |-> TRUE]
    ELSE computeFromReceipts(categoryConfig, receipts)

(***************************************************************************)
(* Inputs                                                                  *)
(***************************************************************************)
\* Years around the configured range, and the far years of the fallback.
Years == (MinYear .. MaxYear) \cup {0, 1999, 9999}

ConfiguredYears == DOMAIN YEAR_CONFIGS

\* Every bracket bound of both tables.
BracketBounds ==
    { TAX_BRACKETS.post_2023[i].max : i \in 1 .. Len(TAX_BRACKETS.post_2023) - 1 }
    \cup
    { TAX_BRACKETS.pre_2023[i].max : i \in 1 .. Len(TAX_BRACKETS.pre_2023) - 1 }

\* Chargeable incomes: negative, zero, each bound and its two neighbours,
\* the inside of every bracket, and the top of the model.
IncomeInputs ==
    {-100, 0, 1, 2500, 12000, 60000, 300000, MaxIncome}
    \cup { b - 1 : b \in BracketBounds }
    \cup BracketBounds
    \cup { b + 1 : b \in BracketBounds }

(***************************************************************************)
(* The tax calculator as a state machine: the caller hands an income and a *)
(* year to calculateProgressiveTax and keeps the result                    *)
(* (DashboardScreen.tsx line 85).                                          *)
(***************************************************************************)
TaxIdle ==
    /\ year = 0 /\ income = 0 /\ tax = 0
    /\ brackets = <<>> /\ prevCall = <<>>

ResolverIdle == resolved = <<>>

CategoryIdle == cat = <<>> /\ receiptList = <<>> /\ stats = <<>>

ConfigIdle == cfgYear = 0 /\ cfgProfile = <<>> /\ configs = <<>> /\ prevConfigs = <<>>

DashboardIdle ==
    /\ selectedYear = 0 /\ userProfile = <<>> /\ storedReceipts = <<>> /\ appReceipts = <<>>
    /\ incomeMap = <<>> /\ timezone = 0 /\ dash = <<>>

MenuIdle ==
    /\ hasMenu = FALSE /\ loaded = FALSE /\ bodyClasses = {} /\ navOpen = "" /\ navAriaHidden = ""
    /\ toggleAriaExpanded = "" /\ toggleClasses = {} /\ innerWidth = 0 /\ clicks = <<>>
    /\ lastEvent = "none"

StorageIdle ==
    asyncStorage = <<>> /\ calls = <<>>

ApiIdle ==
    isRefreshing = FALSE /\ failedQueue = <<>> /\ requests = <<>> /\ tokens = <<>> /\ refresh = <<>>

OcrIdle ==
    ocrCall = <<>> /\ parseCall = <<>>

SyncIdle ==
    deviceReceipts = <<>> /\ serverReceipts = <<>> /\ syncInProgress = FALSE /\ lastSyncTime = <<>> /\ saveCall = <<>> /\ syncCall = <<>> /\ syncResult = <<>> /\ unsent = {}

InitTax ==
    /\ year \in Years
    /\ income \in IncomeInputs
    /\ tax = calculateProgressiveTax(income, year)
    /\ brackets = bracketsOfCall(income, year)
    /\ prevCall = <<>>
    /\ ResolverIdle
    /\ CategoryIdle
    /\ ConfigIdle
    /\ DashboardIdle
    /\ MenuIdle
    /\ StorageIdle
    /\ ApiIdle
    /\ OcrIdle
    /\ SyncIdle

\* The income changes: the tax is computed again for the same year.
CalculateTax(i) ==
    /\ prevCall' = <<[income |-> income, tax |-> tax]>>
    /\ income' = i
    /\ tax' = calculateProgressiveTax(i, year)
    /\ brackets' = bracketsOfCall(i, year)
    /\ UNCHANGED <<year, outsideTax>>

\* Another assessment year is selected: the tax of the same income is
\* computed again under that year.
SelectYear(y) ==
    /\ y # year
    /\ year' = y
    /\ tax' = calculateProgressiveTax(income, y)
    /\ brackets' = bracketsOfCall(income, y)
    /\ prevCall' = <<>>
    /\ UNCHANGED <<income, outsideTax>>

NextTax ==
    \/ \E i \in IncomeInputs : CalculateTax(i)
    \/ \E y \in Years : SelectYear(y)

SpecTax == InitTax /\ [][NextTax]_vars

(***************************************************************************)
(* The year resolver as a state machine: calls of getYearTaxConfig         *)
(***************************************************************************)
InitResolver ==
    /\ ResolverIdle
    /\ TaxIdle
    /\ CategoryIdle
    /\ ConfigIdle
    /\ DashboardIdle
    /\ MenuIdle
    /\ StorageIdle
    /\ ApiIdle
    /\ OcrIdle
    /\ SyncIdle

GetYearTaxConfig(y) ==
    /\ resolved' = <<[year |-> y, config |-> getYearTaxConfig(y)]>>
                      \o SubSeq(resolved, 1, Min(1, Len(resolved)))
    /\ UNCHANGED outsideResolver

NextResolver == \E y \in Years : GetYearTaxConfig(y)

SpecResolver == InitResolver /\ [][NextResolver]_vars

(***************************************************************************)
(* Inputs of the category claim aggregator                                 *)
(***************************************************************************)
Profile(status, spouseWorking, spouseDisabled, selfDisabled, alimony, kidsUnder18, kidsPreU, kidsDegree, kidsDisabled, kidsDisabledDiploma) ==
    [status |-> status, spouseWorking |-> spouseWorking,
     spouseDisabled |-> spouseDisabled, selfDisabled |-> selfDisabled,
     alimony |-> alimony, kidsUnder18 |-> kidsUnder18, kidsPreU |-> kidsPreU,
     kidsDegree |-> kidsDegree, kidsDisabled |-> kidsDisabled,
     kidsDisabledDiploma |-> kidsDisabledDiploma]

\* A single taxpayer without dependents, a married one with a spouse at
\* home and two children, and a disabled one with a disabled spouse and a
\* disabled child.
ProfileInputs ==
    { Profile("single", FALSE, FALSE, FALSE, FALSE, 0, 0, 0, 0, 0),
      Profile("married", FALSE, FALSE, FALSE, FALSE, 2, 0, 0, 0, 0),
      Profile("married", TRUE, TRUE, TRUE, FALSE, 0, 0, 1, 1, 0) }

\* The two examples of a pool clamp in one category: item_a has subLimit 500
\* and shares a pool of limit 1000 with item_b; item_c is in no pool; the
\* category limit is 10000.
PoolExample ==
    Category("pool_example", 10000,
             << Item("item_a", "pool_example", 500),
                Item("item_b", "pool_example", 0),
                Item("item_c", "pool_example", 0) >>,
             << [limit |-> 1000, items |-> <<"item_a", "item_b">>] >>,
             FALSE)

\* Every category getYearConfig builds for a configured year and a profile
\* of the model, and the pool example.
CategoryInputs ==
    { getYearConfig(y, p)[i] :
        <<y, p, i>> \in { t \in ConfiguredYears \X ProfileInputs \X (1 .. 20) :
                            t[3] <= Len(getYearConfig(t[1], t[2])) } }
    \cup {PoolExample}

\* Amounts in ringgit: a negative one, one below every sub-limit and pool
\* limit, and one above every sub-limit.
Amounts == {-100, 700, 6000}

Receipt(status, amount, category, subCategory) ==
    [status |-> status, amount |-> amount,
     category |-> category, subCategory |-> subCategory]

\* The subCategory ids tried for a category: its items, the members of its
\* pools, and the catalogue entries filed under the category (parent) that
\* are not among its items in every year: medical_dental before 2024,
\* medical_child_dev before 2023, lifestyle_gym from 2024 on.
SubCategoriesFor(c) ==
    { c.items[i].id : i \in 1 .. Len(c.items) }
    \cup UNION { { c.sharedPools[i].items[j] : j \in 1 .. Len(c.sharedPools[i].items) } :
                  i \in 1 .. Len(c.sharedPools) }
    \cup { DEDUCTIBLES[k].id : k \in { n \in DOMAIN DEDUCTIBLES :
                                          DEDUCTIBLES[n].parent = c.id } }

\* Verified receipts of the category with every subCategory and amount;
\* receipts of the category under review, and one pending and one being
\* analyzed; a verified receipt of another configured category and one of
\* a category nobody configures.
ReceiptInputs(c) ==
    { Receipt("verified", a, c.id, sub) : a \in Amounts, sub \in SubCategoriesFor(c) }
    \cup { Receipt("review", 700, c.id, sub) : sub \in SubCategoriesFor(c) }
    \cup { Receipt(st, 700, c.id, c.items[1].id) : st \in {"pending", "analyzing"} }
    \cup { Receipt("verified", 700, other, c.items[1].id) :
              other \in { IF c.id = "lifestyle" THEN "medical" ELSE "lifestyle",
                          "no_such_category" } }

(***************************************************************************)
(* The aggregator as a state machine: the receipt list changes and the     *)
(* stats of the category are computed again from the whole list            *)
(* (DashboardScreen.tsx lines 56-65).                                      *)
(***************************************************************************)
InitCategory ==
    /\ cat \in CategoryInputs
    /\ receiptList = <<>>
    /\ stats = computeCategoryData(cat, <<>>)
    /\ TaxIdle
    /\ ResolverIdle
    /\ ConfigIdle
    /\ DashboardIdle
    /\ MenuIdle
    /\ StorageIdle
    /\ ApiIdle
    /\ OcrIdle
    /\ SyncIdle

\* One evaluation of the stats: the result of the call, and the config
\* object as the call leaves it.
Recompute ==
    /\ stats' = computeCategoryData(cat, receiptList')
    /\ cat' = configAfterCall(cat, receiptList')

AddReceipt(r) ==
    /\ Len(receiptList) < MaxReceipts
    /\ receiptList' = Append(receiptList, r)
    /\ Recompute
    /\ UNCHANGED outsideCategory

DeleteReceipt(i) ==
    /\ receiptList' = SubSeq(receiptList, 1, i - 1) \o SubSeq(receiptList, i + 1, Len(receiptList))
    /\ Recompute
    /\ UNCHANGED outsideCategory

\* The user confirms a receipt under review: its status becomes verified.
\* (saveReceipt sorts the list by date afterwards; computeCategoryData sums
\* over the list, so the receipts stay here in the order of their arrival.)
VerifyReceipt(i) ==
    /\ receiptList[i].status = "review"
    /\ receiptList' = [receiptList EXCEPT ![i].status = "verified"]
    /\ Recompute
    /\ UNCHANGED outsideCategory

\* The stats are evaluated again for the same config and receipts.
Rerender ==
    /\ receiptList' = receiptList
    /\ Recompute
    /\ UNCHANGED outsideCategory

NextCategory ==
    \/ \E r \in ReceiptInputs(cat) : AddReceipt(r)
    \/ \E i \in 1 .. Len(receiptList) : DeleteReceipt(i)
    \/ \E i \in 1 .. Len(receiptList) : VerifyReceipt(i)
    \/ Rerender

SpecCategory == InitCategory /\ [][NextCategory]_vars

(***************************************************************************)
(* The relief configuration builder as a state machine: calls of           *)
(* getYearConfig (DashboardScreen.tsx lines 38-41), the call before kept   *)
(* beside the last one.                                                    *)
(***************************************************************************)
\* Every combination of marital status, working spouse and alimony without
\* dependents; then disabled taxpayers and spouses, and children of each
\* kind.
ConfigProfiles ==
    { Profile(st, w, FALSE, FALSE, a, 0, 0, 0, 0, 0) :
        st \in {"single", "married"}, w \in BOOLEAN, a \in BOOLEAN }
    \cup { Profile("single", FALSE, FALSE, TRUE, FALSE, 0, 0, 0, 0, 0),
           Profile("single", FALSE, TRUE, FALSE, FALSE, 0, 0, 0, 0, 0),
           Profile("married", TRUE, TRUE, FALSE, FALSE, 0, 0, 0, 0, 0),
           Profile("married", FALSE, FALSE, FALSE, FALSE, 2, 0, 0, 0, 0),
           Profile("single", FALSE, FALSE, FALSE, FALSE, 0, 1, 1, 0, 0),
           Profile("married", TRUE, FALSE, FALSE, FALSE, 0, 0, 0, 1, 0),
           Profile("single", FALSE, FALSE, FALSE, FALSE, 0, 0, 0, 0, 1) }

\* The configured years and one year on each side of them.
ConfigYears == ConfiguredYears \cup {2018, 2026}

InitConfig ==
    /\ cfgYear \in ConfigYears
    /\ cfgProfile \in ConfigProfiles
    /\ configs = getYearConfig(cfgYear, cfgProfile)
    /\ prevConfigs = <<>>
    /\ TaxIdle
    /\ ResolverIdle
    /\ CategoryIdle
    /\ DashboardIdle
    /\ MenuIdle
    /\ StorageIdle
    /\ ApiIdle
    /\ OcrIdle
    /\ SyncIdle

\* The list is built again when the year or the profile changes (the
\* dependencies of the useMemo at lines 38-41).
GetYearConfig(y, profile) ==
    /\ y = cfgYear \/ profile = cfgProfile
    /\ cfgYear' = y
    /\ cfgProfile' = profile
    /\ configs' = getYearConfig(y, profile)
    /\ prevConfigs' = <<[year |-> cfgYear, profile |-> cfgProfile, configs |-> configs]>>
    /\ UNCHANGED outsideConfig

NextConfig == \E y \in ConfigYears, profile \in ConfigProfiles : GetYearConfig(y, profile)

SpecConfig == InitConfig /\ [][NextConfig]_vars

(***************************************************************************)
(* DashboardScreen.tsx: what a render derives from the AppContext state.   *)
(* A receipt of the dashboard has the fields id, status, amount, category, *)
(* subCategory and date; a date 'YYYY-MM-DD' is the integer YYYYMMDD.      *)
(* Incomes and donations are multiples of 10 ringgit, so that the 10% of   *)
(* line 78 is a whole number.                                              *)
(***************************************************************************)
YA_YEARS == <<2025, 2024, 2023, 2022, 2021, 2020, 2019>>

CURRENT_YEAR == 2025

\* line 47: new Date(r.date).getFullYear().  A date-only text is parsed as
\* midnight UTC and getFullYear answers in local time: west of UTC that
\* instant is still the evening of the day before, so the first of January
\* belongs to the year before.
getFullYear(date, tz) ==
    IF tz < 0 /\ date % 10000 = 101 THEN date \div 10000 - 1 ELSE date \div 10000

\* line 47 without the test of the year
inSelectedYear_AnyYear(r, selYear, tz) == r.status = "verified"

\* line 47: the filter of yearReceipts
inSelectedYear(r, selYear, tz) ==
    r.status = "verified" /\ getFullYear(r.date, tz) = selYear

\* lines 44-50
yearReceiptsOf(rs, selYear, tz) ==
    SelectSeq(rs, LAMBDA r : inSelectedYear(r, selYear, tz))

\* lines 56-65: totalClaimable and catStats, catStats keyed by category id
\* (the last category of an id wins)
statsOf(activeReliefs, yearReceipts) ==
    LET data == [i \in 1 .. Len(activeReliefs) |->
                    computeCategoryData(activeReliefs[i], yearReceipts)]
        ids == { activeReliefs[i].id : i \in 1 .. Len(activeReliefs) }
        lastOf == [id \in ids |->
                      CHOOSE i \in 1 .. Len(activeReliefs) :
                         /\ activeReliefs[i].id = id
                         /\ \A j \in i + 1 .. Len(activeReliefs) : activeReliefs[j].id # id]
    IN  [totalClaimable |-> SumSeq([i \in 1 .. Len(activeReliefs) |-> data[i].claimable]),
         catStats |-> [id \in ids |-> data[lastOf[id]]]]

\* lines 68-73: Math.max(0, parseFloat(incomeMap[selectedYear]?.field || '0'))
incomeField(incMap, selYear, field) ==
    IF selYear \in DOMAIN incMap THEN Max(0, incMap[selYear][field]) ELSE 0

\* lines 88-90 with the surcharge from 2024 on
dividendSurcharge_From2024(selYear, dividendIncome) ==
    IF selYear >= 2024 /\ dividendIncome > 100000
    THEN (dividendIncome - 100000) * 20 ELSE 0

\* lines 88-90: (dividendIncome - 100000) * 0.02, in thousandths of a ringgit
dividendSurcharge(selYear, dividendIncome) ==
    IF selYear >= 2025 /\ dividendIncome > 100000
    THEN (dividendIncome - 100000) * 20 ELSE 0

\* lines 93-99: statutoryRebate, in ringgit
statutoryRebateOf(chargeableIncome, profile) ==
    IF chargeableIncome <= 35000 /\ chargeableIncome > 0
    THEN 400 + (IF profile.status = "married" /\ ~profile.spouseWorking THEN 400 ELSE 0)
    ELSE 0

\* lines 37-102: the values of one render
DashboardScreen(selYear, profile, rs, incMap, tz) ==
    LET activeReliefs == getYearConfig(selYear, profile)
        yearReceipts == yearReceiptsOf(rs, selYear, tz)
        st == statsOf(activeReliefs, yearReceipts)
        grossIncome == incomeField(incMap, selYear, "gross")
        otherIncome == incomeField(incMap, selYear, "other")
        dividendIncome == incomeField(incMap, selYear, "dividends")
        totalAggIncome == grossIncome + otherIncome + dividendIncome
        donationDeduction == Min(Max(0, profile.donations), totalAggIncome \div 10)
        totalIncome == totalAggIncome - donationDeduction
        personalRelief == 9000
        chargeableIncome == Max(0, totalIncome - personalRelief - st.totalClaimable)
        bracketTax == calculateProgressiveTax(chargeableIncome, selYear)
        taxCalculated == bracketTax + dividendSurcharge(selYear, dividendIncome)
        zakatRebate == Max(0, profile.zakat)
        totalRebates == zakatRebate + statutoryRebateOf(chargeableIncome, profile)
    IN  [totalClaimable |-> st.totalClaimable,
         catStats |-> st.catStats,
         dividendIncome |-> dividendIncome,
         chargeableIncome |-> chargeableIncome,
         bracketTax |-> bracketTax,
         taxCalculated |-> taxCalculated,
         taxPayable |-> Max(0, taxCalculated - totalRebates * 1000)]

(***************************************************************************)
(* AppContext.tsx and NativeStorageAdapter.ts: the receipt operations      *)
(***************************************************************************)
\* lines 32-38 replaced by `receipts = [receipt]`
storeReceipt_OnlyThis(stored, receipt) == <<receipt>>

\* NativeStorageAdapter.saveReceipt: replace the receipt of the same id, or
\* push
storeReceipt(stored, receipt) ==
    IF \E i \in 1 .. Len(stored) : stored[i].id = receipt.id
    THEN [i \in 1 .. Len(stored) |->
             IF stored[i].id = receipt.id
                /\ \A j \in 1 .. i - 1 : stored[j].id # receipt.id
             THEN receipt ELSE stored[i]]
    ELSE Append(stored, receipt)

\* sort((a, b) => new Date(b.date).getTime() - new Date(a.date).getTime()):
\* newest first, receipts of one date in their stored order
RECURSIVE sortByDateDesc(_)
sortByDateDesc(rs) ==
    IF rs = <<>> THEN <<>>
    ELSE LET x == Head(rs)
             rest == sortByDateDesc(Tail(rs))
             before == { i \in 1 .. Len(rest) : rest[i].date > x.date }
         IN  SubSeq(rest, 1, Cardinality(before)) \o <<x>>
             \o SubSeq(rest, Cardinality(before) + 1, Len(rest))

(***************************************************************************)
(* The dashboard as a state machine: the operations of AppContext change   *)
(* the state and DashboardScreen renders again.                            *)
(***************************************************************************)
\* A UserProfile with its zakat and donations.
WithRebates(profile, zakat, donations) ==
    [zakat |-> zakat, donations |-> donations] @@ profile

\* AppContext.tsx lines 24-37 (alimony is absent there: FALSE)
DEFAULT_PROFILE ==
    WithRebates(Profile("single", TRUE, FALSE, FALSE, FALSE, 0, 0, 0, 0, 0), 0, 0)

\* The default profile, and a married taxpayer with a spouse at home and
\* two children who pays zakat and donates.
DashProfiles ==
    { DEFAULT_PROFILE,
      WithRebates(Profile("married", FALSE, FALSE, FALSE, FALSE, 2, 0, 0, 0, 0), 500, 1000) }

\* Offsets from UTC in hours: New York and Kuala Lumpur.
Timezones == {-5, 8}

YearIncome(gross, dividends, other) ==
    [gross |-> gross, dividends |-> dividends, other |-> other]

\* Dividends of exactly 100000 and above 100000.
IncomeRecords ==
    { YearIncome(80000, 100000, 0), YearIncome(20000, 150000, 1000) }

\* No entry at all, or the same entry for 2024 and 2025.
IncomeMaps ==
    { <<>> } \cup { (2024 :> inc) @@ (2025 :> inc) : inc \in IncomeRecords }

DashReceipt(id, status, amount, category, subCategory, date) ==
    [id |-> id, status |-> status, amount |-> amount, category |-> category,
     subCategory |-> subCategory, date |-> date]

\* The last day of 2024 and the first day of 2025.
ReceiptDates == {20241231, 20250101}

\* A vaccination receipt of 1200 and a book receipt of 700, verified or
\* under review, on each date.
DashReceipts ==
    { DashReceipt("r1", st, 1200, "medical", "medical_vax", d) :
        st \in {"verified", "review"}, d \in ReceiptDates }
    \cup { DashReceipt("r2", st, 700, "lifestyle", "lifestyle_books", d) :
        st \in {"verified", "review"}, d \in ReceiptDates }

Render ==
    dash' = DashboardScreen(selectedYear', userProfile', appReceipts', incomeMap', timezone')

InitDashboard ==
    /\ selectedYear = CURRENT_YEAR
    /\ userProfile = DEFAULT_PROFILE
    /\ storedReceipts = <<>>
    /\ appReceipts = <<>>
    /\ incomeMap = <<>>
    /\ timezone \in Timezones
    /\ dash = DashboardScreen(selectedYear, userProfile, appReceipts, incomeMap, timezone)
    /\ TaxIdle
    /\ ResolverIdle
    /\ CategoryIdle
    /\ ConfigIdle
    /\ MenuIdle
    /\ StorageIdle
    /\ ApiIdle
    /\ OcrIdle
    /\ SyncIdle

\* DashboardScreen.tsx: the year selector
setSelectedYear(y) ==
    /\ selectedYear' = y
    /\ UNCHANGED <<userProfile, storedReceipts, appReceipts, incomeMap, timezone>>
    /\ Render
    /\ UNCHANGED outsideDashboard

\* AppContext.tsx lines 88-92
saveReceipt(receipt) ==
    /\ \/ Len(storedReceipts) < MaxAppReceipts
       \/ \E i \in 1 .. Len(storedReceipts) : storedReceipts[i].id = receipt.id
    /\ storedReceipts' = storeReceipt(storedReceipts, receipt)
    /\ appReceipts' = sortByDateDesc(storedReceipts')
    /\ UNCHANGED <<selectedYear, userProfile, incomeMap, timezone>>
    /\ Render
    /\ UNCHANGED outsideDashboard

\* AppContext.tsx lines 94-97
deleteReceipt(id) ==
    /\ storedReceipts' = SelectSeq(storedReceipts, LAMBDA r : r.id # id)
    /\ appReceipts' = SelectSeq(appReceipts, LAMBDA r : r.id # id)
    /\ UNCHANGED <<selectedYear, userProfile, incomeMap, timezone>>
    /\ Render
    /\ UNCHANGED outsideDashboard

\* AppContext.tsx lines 99-102
updateIncomeMap(map) ==
    /\ incomeMap' = map
    /\ UNCHANGED <<selectedYear, userProfile, storedReceipts, appReceipts, timezone>>
    /\ Render
    /\ UNCHANGED outsideDashboard

\* AppContext.tsx lines 104-107
updateUserProfile(profile) ==
    /\ userProfile' = profile
    /\ UNCHANGED <<selectedYear, storedReceipts, appReceipts, incomeMap, timezone>>
    /\ Render
    /\ UNCHANGED outsideDashboard

NextDashboard ==
    \/ \E i \in 1 .. MaxYearChoices : setSelectedYear(YA_YEARS[i])
    \/ \E receipt \in DashReceipts : saveReceipt(receipt)
    \/ \E i \in 1 .. Len(storedReceipts) : deleteReceipt(storedReceipts[i].id)
    \/ \E map \in IncomeMaps : updateIncomeMap(map)
    \/ \E profile \in DashProfiles : updateUserProfile(profile)

SpecDashboard == InitDashboard /\ [][NextDashboard]_vars

(***************************************************************************)
(* script.js: the page menu                                                *)
(***************************************************************************)
\* The viewport widths of the model: both sides of 900 and its two neighbours.
Widths == {600, 900, 901, 1200}

\* The markup before the script runs: an attribute is unset or has a value.
AttributeValues == {"", "true", "false"}

\* line 42 with >= in place of >
opensOnLoad_From900(w) == w >= 900

\* line 42: the test that chooses openMenu(false) at load
opensOnLoad(w) == w > 900

\* line 35 always false
toggleActivated_Never(activateToggle, w) == FALSE

\* line 35: the test that adds is-active
toggleActivated(activateToggle, w) == activateToggle /\ w <= 900

\* line 58 never true
opensOnResize_Never(w) == FALSE

\* line 58: the test that chooses openMenu(false) on a resize
opensOnResize(w) == w > 900

\* lines 23-28 without line 27
closeMenu_KeepsActive ==
    /\ navOpen' = "false"
    /\ navAriaHidden' = "true"
    /\ toggleAriaExpanded' = "false"
    /\ toggleClasses' = toggleClasses

\* lines 23-28
closeMenu ==
    /\ navOpen' = "false"
    /\ navAriaHidden' = "true"
    /\ toggleAriaExpanded' = "false"
    /\ toggleClasses' = toggleClasses \ {"is-active"}

\* lines 30-40; w is window.innerWidth when it runs
openMenu(activateToggle, w) ==
    /\ navOpen' = "true"
    /\ navAriaHidden' = "false"
    /\ toggleAriaExpanded' = "true"
    /\ toggleClasses' = IF toggleActivated(activateToggle, w)
                        THEN toggleClasses \cup {"is-active"}
                        ELSE toggleClasses \ {"is-active"}

\* The page before the script runs.  The markup is not part of the
\* repository, so every combination of its attributes is a start.
InitMenu ==
    /\ hasMenu \in BOOLEAN
    /\ loaded = FALSE
    /\ bodyClasses \in {{"no-js"}, {}}
    /\ innerWidth \in Widths
    /\ IF hasMenu
       THEN /\ navOpen \in AttributeValues
            /\ navAriaHidden \in AttributeValues
            /\ toggleAriaExpanded \in AttributeValues
            /\ toggleClasses \in {{}, {"is-active"}}
       ELSE /\ navOpen = "" /\ navAriaHidden = ""
            /\ toggleAriaExpanded = "" /\ toggleClasses = {}
    /\ clicks = <<>>
    /\ lastEvent = "none"
    /\ TaxIdle /\ ResolverIdle /\ CategoryIdle /\ ConfigIdle /\ DashboardIdle /\ StorageIdle /\ ApiIdle /\ OcrIdle /\ SyncIdle

\* lines 1-64: the script runs once.  Without the nav or the toggle it
\* returns at line 16 and registers no handler.  The write of line 20 is
\* overwritten by openMenu or closeMenu at lines 42-46 before the run ends.
Load ==
    /\ ~loaded
    /\ loaded' = TRUE
    /\ bodyClasses' = (bodyClasses \ {"no-js"}) \cup {"has-js"}
    /\ IF hasMenu
       THEN /\ IF opensOnLoad(innerWidth) THEN openMenu(FALSE, innerWidth) ELSE closeMenu
            /\ clicks' = <<navOpen'>>
       ELSE UNCHANGED <<navOpen, navAriaHidden, toggleAriaExpanded, toggleClasses, clicks>>
    /\ lastEvent' = "load"
    /\ UNCHANGED <<hasMenu, innerWidth>>
    /\ UNCHANGED outsideMenu

\* lines 48-55: the click handler of the toggle
ClickToggle ==
    /\ loaded /\ hasMenu
    /\ Len(clicks) <= MaxClicks
    /\ IF navOpen = "true" THEN closeMenu ELSE openMenu(TRUE, innerWidth)
    /\ clicks' = Append(clicks, navOpen')
    /\ lastEvent' = "click"
    /\ UNCHANGED <<hasMenu, loaded, bodyClasses, innerWidth>>
    /\ UNCHANGED outsideMenu

\* lines 57-63: the viewport becomes w wide (w may be the width it had: the
\* height changed) and the resize handler runs
Resize(w) ==
    /\ loaded /\ hasMenu
    /\ innerWidth' = w
    /\ IF opensOnResize(w)
       THEN openMenu(FALSE, w)
       ELSE IF "is-active" \notin toggleClasses
            THEN closeMenu
            ELSE UNCHANGED <<navOpen, navAriaHidden, toggleAriaExpanded, toggleClasses>>
    /\ clicks' = <<navOpen'>>
    /\ lastEvent' = "resize"
    /\ UNCHANGED <<hasMenu, loaded, bodyClasses>>
    /\ UNCHANGED outsideMenu

NextMenu ==
    \/ Load
    \/ ClickToggle
    \/ \E w \in Widths : Resize(w)

SpecMenu == InitMenu /\ [][NextMenu]_vars

(***************************************************************************)
(* NativeStorageAdapter.ts and HybridStorageAdapter: the adapter calls as  *)
(* the steps between their awaits.  Both adapters have the same            *)
(* saveReceipt and deleteReceipt, except that the native one logs an error *)
(* before it throws it again.                                              *)
(*                                                                         *)
(* A value of AsyncStorage is <<>> when the key is absent and <<v>> when   *)
(* the key holds v.                                                        *)
(***************************************************************************)
Slots == 1 .. MaxCalls

StoredReceipt(id, amount) == [id |-> id, amount |-> amount]

\* What the model stores, saves, deletes, imports and restores.
StorageEmpty == [receipts |-> <<>>, incomeMap |-> <<>>, userProfile |-> <<>>, apiKey |-> <<>>, lastBackup |-> <<>>]
StorageInUse == [receipts |-> << <<StoredReceipt("r1", 10), StoredReceipt("r2", 10)>> >>, incomeMap |-> <<1>>, userProfile |-> <<1>>, apiKey |-> <<1>>, lastBackup |-> <<>>]
SaveArguments == {StoredReceipt("r1", 20), StoredReceipt("r2", 20)}
DeleteArguments == {"r1", "r2"}
BackupData(version, receipts) == [version |-> version, receipts |-> receipts, incomeMap |-> <<2>>, userProfile |-> <<>>]
ImportArguments == {BackupData("1.0", << <<StoredReceipt("r2", 30)>> >>), BackupData("0.9", << <<StoredReceipt("r2", 30)>> >>)}
CloudBackups == {BackupData("cloud", << <<StoredReceipt("r1", 30)>> >>), BackupData("cloud", << <<>> >>)}

\* loadReceipts: the list under the key, [] when the key is absent and []
\* from the catch when getItem or JSON.parse throws
loadReceipts(item, ok) == IF ok /\ item # <<>> THEN item[1] ELSE <<>>

\* deleteReceipt with a filter that keeps nothing
withoutReceipt_None(stored, id) == <<>>

\* deleteReceipt's filter
withoutReceipt(stored, id) == SelectSeq(stored, LAMBDA r : r.id # id)

\* clearAll: multiRemove of four keys; LAST_BACKUP is not one of them
clearAll(storage) == [storage EXCEPT !.receipts = <<>>, !.incomeMap = <<>>, !.userProfile = <<>>, !.apiKey = <<>>]

\* importFromJSON with clearAll moved before the test of the version
importAfter_ClearFirst(pc, data) ==
    CASE pc = "start" -> "clear"
      [] pc = "clear" -> IF data.version # "1.0" THEN "rejected" ELSE "receipts"
      [] pc = "receipts" -> "incomeMap"
      [] pc = "incomeMap" -> "userProfile"
      [] OTHER -> "resolved"

\* importFromJSON: where the call is after the step at pc
importAfter(pc, data) ==
    CASE pc = "start" -> IF data.version # "1.0" THEN "rejected" ELSE "clear"
      [] pc = "clear" -> "receipts"
      [] pc = "receipts" -> "incomeMap"
      [] pc = "incomeMap" -> "userProfile"
      [] OTHER -> "resolved"

\* restoreFromCloud: where the call is after the step at pc; user is the
\* answer of supabase.auth.getUser(), found that of the select
restoreAfter(pc, user, found) ==
    CASE pc = "getUser" -> IF ~user THEN "rejected" ELSE "select"
      [] pc = "select" -> IF ~found THEN "rejected" ELSE "clear"
      [] pc = "clear" -> "receipts"
      [] pc = "receipts" -> "incomeMap"
      [] pc = "incomeMap" -> "userProfile"
      [] pc = "userProfile" -> "lastBackup"
      [] OTHER -> "resolved"

\* The tests that guard the setItem of each key.
importWrites(key, data) == data[key] # <<>>
restoreWrites(key, backup) ==
    CASE key = "receipts" -> backup.receipts # <<>> /\ Len(backup.receipts[1]) > 0
      [] key = "incomeMap" -> backup.incomeMap # <<>> /\ backup.incomeMap[1] > 0
      [] key = "userProfile" -> backup.userProfile # <<>>
      [] OTHER -> TRUE

\* A call in a slot.  overlapped, stale, readOk and writes record what
\* happened to it: another call was in progress during it; another call
\* wrote the receipts between its read and its write; its read succeeded;
\* the number of its writes to AsyncStorage.
NewCall(op, arg, pc, over) == [op |-> op, arg |-> arg, pc |-> pc, local |-> <<>>, reason |-> "", overlapped |-> over, stale |-> FALSE, readOk |-> TRUE, writes |-> 0]

Ended(c) == calls[c] # <<>> /\ calls[c].pc \in {"resolved", "rejected"}
InProgress(c) == calls[c] # <<>> /\ ~Ended(c)

\* calls with slot c set to call, the calls in progress marked as
\* overlapped when c starts and as stale when c writes the receipts
callsWith(c, call, starts, writesReceipts) ==
    [d \in Slots |->
        IF d = c THEN call
        ELSE IF ~InProgress(d) THEN calls[d]
        ELSE [calls[d] EXCEPT !.overlapped = @ \/ starts,
                              !.stale = @ \/ (writesReceipts /\ calls[d].pc = "write")]]

InitStorage ==
    /\ asyncStorage \in {StorageEmpty, StorageInUse}
    /\ calls = [c \in Slots |-> <<>>]
    /\ TaxIdle /\ ResolverIdle /\ CategoryIdle /\ ConfigIdle /\ DashboardIdle /\ MenuIdle /\ ApiIdle /\ OcrIdle /\ SyncIdle

\* A call starts in a free slot and runs to its first await.
Start(c, op, arg, pc) ==
    /\ calls[c] = <<>>
    /\ calls' = callsWith(c, NewCall(op, arg, pc, \E d \in Slots : InProgress(d)), TRUE, FALSE)
    /\ UNCHANGED asyncStorage
    /\ UNCHANGED outsideStorage

\* saveReceipt line 31, deleteReceipt line 49: await this.loadReceipts()
ReadReceipts(c, ok) ==
    /\ InProgress(c) /\ calls[c].pc = "read"
    /\ calls' = callsWith(c, [calls[c] EXCEPT !.pc = "write", !.readOk = ok,
                                              !.local = loadReceipts(asyncStorage.receipts, ok)], FALSE, FALSE)
    /\ UNCHANGED asyncStorage
    /\ UNCHANGED outsideStorage

\* saveReceipt lines 32-40, deleteReceipt lines 50-51: the list is changed
\* and written; the call throws when setItem does
WriteReceipts(c, ok) ==
    /\ InProgress(c) /\ calls[c].pc = "write"
    /\ LET list == IF calls[c].op = "saveReceipt"
                   THEN storeReceipt(calls[c].local, calls[c].arg)
                   ELSE withoutReceipt(calls[c].local, calls[c].arg)
       IN  IF ok
           THEN /\ asyncStorage' = [asyncStorage EXCEPT !.receipts = <<list>>]
                /\ calls' = callsWith(c, [calls[c] EXCEPT !.pc = "resolved", !.writes = @ + 1], FALSE, TRUE)
           ELSE /\ asyncStorage' = asyncStorage
                /\ calls' = callsWith(c, [calls[c] EXCEPT !.pc = "rejected", !.reason = "storage"], FALSE, FALSE)
    /\ UNCHANGED outsideStorage

\* importFromJSON lines 281-285: JSON.parse and the test of the version
\* run before the first await
StartImport(c, data) ==
    /\ calls[c] = <<>>
    /\ LET pc == importAfter("start", data)
       IN  calls' = callsWith(c, [NewCall("importFromJSON", data, pc, \E d \in Slots : InProgress(d))
                                     EXCEPT !.reason = IF pc = "rejected" THEN "version" ELSE ""], TRUE, FALSE)
    /\ UNCHANGED asyncStorage
    /\ UNCHANGED outsideStorage

\* The step of importFromJSON or restoreFromCloud at pc, to the next await:
\* clearAll, or the setItem of one key when its test passes
stepStorage(storage, op, pc, data) ==
    IF pc = "clear" THEN clearAll(storage)
    ELSE IF (IF op = "importFromJSON" THEN importWrites(pc, data) ELSE restoreWrites(pc, data))
         THEN [storage EXCEPT ![pc] = IF pc = "lastBackup" THEN <<1>> ELSE data[pc]]
         ELSE storage

\* importFromJSON lines 288-301
StepImport(c) ==
    /\ InProgress(c) /\ calls[c].op = "importFromJSON"
    /\ LET call == calls[c]
           after == stepStorage(asyncStorage, call.op, call.pc, call.arg)
       IN  /\ asyncStorage' = after
           /\ calls' = callsWith(c, [call EXCEPT !.pc = importAfter(call.pc, call.arg),
                                                 !.reason = IF importAfter(call.pc, call.arg) = "rejected" THEN "version" ELSE "",
                                                 !.writes = IF call.pc = "clear" \/ importWrites(call.pc, call.arg) THEN @ + 1 ELSE @],
                                 FALSE, after.receipts # asyncStorage.receipts)
    /\ UNCHANGED outsideStorage

\* restoreFromCloud lines 167-182: the two requests to Supabase; backup is
\* <<>> when the select has an error or no row
AskCloud(c, user, backup) ==
    /\ InProgress(c) /\ calls[c].op = "restoreFromCloud" /\ calls[c].pc \in {"getUser", "select"}
    /\ LET call == calls[c]
           pc == restoreAfter(call.pc, user, backup # <<>>)
       IN  calls' = callsWith(c, [call EXCEPT !.pc = pc,
                                              !.arg = IF call.pc = "select" /\ backup # <<>> THEN backup[1] ELSE @,
                                              !.reason = IF pc # "rejected" THEN "" ELSE IF call.pc = "getUser" THEN "user" ELSE "backup"],
                                 FALSE, FALSE)
    /\ UNCHANGED asyncStorage
    /\ UNCHANGED outsideStorage

\* restoreFromCloud lines 185-201
StepRestore(c) ==
    /\ InProgress(c) /\ calls[c].op = "restoreFromCloud" /\ calls[c].pc \notin {"getUser", "select"}
    /\ LET call == calls[c]
           after == stepStorage(asyncStorage, call.op, call.pc, call.arg)
       IN  /\ asyncStorage' = after
           /\ calls' = callsWith(c, [call EXCEPT !.pc = restoreAfter(call.pc, TRUE, TRUE),
                                                 !.writes = IF call.pc = "clear" \/ restoreWrites(call.pc, call.arg) THEN @ + 1 ELSE @],
                                 FALSE, after.receipts # asyncStorage.receipts)
    /\ UNCHANGED outsideStorage

\* The caller has seen the end of the call.
Forget(c) ==
    /\ Ended(c)
    /\ calls' = [calls EXCEPT ![c] = <<>>]
    /\ UNCHANGED asyncStorage
    /\ UNCHANGED outsideStorage

NextStorage ==
    \/ \E c \in Slots, receipt \in SaveArguments : Start(c, "saveReceipt", receipt, "read")
    \/ \E c \in Slots, id \in DeleteArguments : Start(c, "deleteReceipt", id, "read")
    \/ \E c \in Slots : Start(c, "restoreFromCloud", <<>>, "getUser")
    \/ \E c \in Slots, data \in ImportArguments : StartImport(c, data)
    \/ \E c \in Slots, ok \in BOOLEAN : ReadReceipts(c, ok)
    \/ \E c \in Slots, ok \in BOOLEAN : WriteReceipts(c, ok)
    \/ \E c \in Slots : StepImport(c)
    \/ \E c \in Slots, user \in BOOLEAN, backup \in {<<>>} \cup {<<b>> : b \in CloudBackups} : AskCloud(c, user, backup)
    \/ \E c \in Slots : StepRestore(c)
    \/ \E c \in Slots : Forget(c)

SpecStorage == InitStorage /\ [][NextStorage]_vars

(***************************************************************************)
(* apiClient.ts: the response interceptor (lines 39-93).  A step is what   *)
(* runs between two awaits; the server answers a request in flight with    *)
(* 200, with 401 or with another error.                                    *)
(***************************************************************************)
Req == 1 .. MaxRequests

\* The entry of failedQueue that belongs to the POST /auth/refresh itself.
RefreshPost == 0

\* line 46 never true
on401_NoQueue(retry, refreshing) == IF retry THEN "reject" ELSE "refresh"

\* lines 45-59: what the interceptor does with a 401
on401(retry, refreshing) ==
    IF retry THEN "reject"
    ELSE IF refreshing THEN "queue"
    ELSE "refresh"

\* the finally of lines 86-88 left out
afterFinally_Kept(flag) == flag

\* lines 86-88: isRefreshing after the finally
afterFinally(flag) == FALSE

\* The request r answered: its new state and the status of the answer.
answered(reqs, r, st, status) == [reqs EXCEPT ![r].st = st, ![r].answer = status]

\* The request r sent with the stored token (the request interceptor, lines
\* 27-36).
sent(req, token) == [req EXCEPT !.st = "inflight", !.sends = @ + 1, !.auth = token]

\* lines 74-75: every queued promise is resolved with the token and its
\* request is sent again (lines 51-54)
resolveQueue(reqs, queue, token) ==
    [r \in Req |->
        IF \E i \in 1 .. Len(queue) : queue[i] = r
        THEN sent(reqs[r], token)
        ELSE reqs[r]]

\* line 80: every queued promise is rejected
rejectQueue(reqs, queue) ==
    [r \in Req |->
        IF \E i \in 1 .. Len(queue) : queue[i] = r
        THEN [reqs[r] EXCEPT !.st = "rejected"]
        ELSE reqs[r]]

InitApi ==
    /\ isRefreshing = FALSE
    /\ failedQueue = <<>>
    /\ requests = [r \in Req |-> [st |-> "idle", retry |-> FALSE, sends |-> 0, auth |-> 0, answer |-> 0]]
    /\ tokens \in {[token |-> 1, refreshToken |-> 1], [token |-> 1, refreshToken |-> 0]}
    /\ refresh = <<>>
    /\ TaxIdle /\ ResolverIdle /\ CategoryIdle /\ ConfigIdle /\ DashboardIdle /\ MenuIdle /\ StorageIdle /\ OcrIdle /\ SyncIdle

\* get / post / put / delete / patch: a caller sends a request
Send(r) ==
    /\ requests[r].st = "idle"
    /\ requests' = [requests EXCEPT ![r] = sent(@, tokens.token)]
    /\ UNCHANGED <<isRefreshing, failedQueue, tokens, refresh>>
    /\ UNCHANGED outsideApi

\* line 40: the answer is a success
Respond200(r) ==
    /\ requests[r].st = "inflight"
    /\ requests' = answered(requests, r, "resolved", 200)
    /\ UNCHANGED <<isRefreshing, failedQueue, tokens, refresh>>
    /\ UNCHANGED outsideApi

\* lines 45 and 91: an error that is not a 401
RespondError(r) ==
    /\ requests[r].st = "inflight"
    /\ requests' = answered(requests, r, "rejected", 500)
    /\ UNCHANGED <<isRefreshing, failedQueue, tokens, refresh>>
    /\ UNCHANGED outsideApi

\* lines 41-62 and 91: the answer is a 401
Respond401(r) ==
    /\ requests[r].st = "inflight"
    /\ LET todo == on401(requests[r].retry, isRefreshing)
       IN  CASE todo = "reject" ->
                  /\ requests' = answered(requests, r, "rejected", 401)
                  /\ UNCHANGED <<isRefreshing, failedQueue, refresh>>
             [] todo = "queue" ->
                  /\ requests' = answered(requests, r, "queued", 401)
                  /\ failedQueue' = Append(failedQueue, r)
                  /\ UNCHANGED <<isRefreshing, refresh>>
             [] OTHER ->
                  /\ requests' = [answered(requests, r, "refreshing", 401) EXCEPT ![r].retry = TRUE]
                  /\ isRefreshing' = TRUE
                  /\ refresh' = [pc |-> "getItem", owner |-> r, newToken |-> 0]
                  /\ UNCHANGED failedQueue
    /\ UNCHANGED tokens
    /\ UNCHANGED outsideApi

\* lines 79-84: the catch, to the first await of clearTokens
CatchRefreshError ==
    /\ requests' = rejectQueue(requests, failedQueue)
    /\ failedQueue' = <<>>
    /\ refresh' = [refresh EXCEPT !.pc = "clearToken"]
    /\ UNCHANGED <<isRefreshing, tokens>>

\* lines 62-67: the refresh token is read; without one the refresh throws
RefreshGetItem ==
    /\ refresh # <<>> /\ refresh.pc = "getItem"
    /\ IF tokens.refreshToken = 0
       THEN CatchRefreshError
       ELSE /\ refresh' = [refresh EXCEPT !.pc = "post"]
            /\ UNCHANGED <<isRefreshing, failedQueue, requests, tokens>>
    /\ UNCHANGED outsideApi

\* lines 67-70: POST /auth/refresh is answered 200 with a new pair of tokens
RefreshPost200 ==
    /\ refresh # <<>> /\ refresh.pc = "post"
    /\ refresh' = [refresh EXCEPT !.pc = "setToken", !.newToken = tokens.token + 1]
    /\ UNCHANGED <<isRefreshing, failedQueue, requests, tokens>>
    /\ UNCHANGED outsideApi

\* line 67 with lines 41-56: POST /auth/refresh is answered 401.  The post
\* goes through this.client, so the same interceptor handles its error: its
\* config has no _retry and isRefreshing is true, so its promise is queued.
RefreshPost401 ==
    /\ refresh # <<>> /\ refresh.pc = "post"
    /\ LET todo == on401(FALSE, isRefreshing)
       IN  IF todo = "queue"
           THEN /\ failedQueue' = Append(failedQueue, RefreshPost)
                /\ refresh' = [refresh EXCEPT !.pc = "queued"]
                /\ UNCHANGED <<isRefreshing, requests, tokens>>
           ELSE CatchRefreshError
    /\ UNCHANGED outsideApi

\* line 67: POST /auth/refresh fails in another way (500, network, timeout)
RefreshPostError ==
    /\ refresh # <<>> /\ refresh.pc = "post"
    /\ CatchRefreshError
    /\ UNCHANGED outsideApi

\* line 70: the new token is stored, or setItem throws
RefreshSetToken(ok) ==
    /\ refresh # <<>> /\ refresh.pc = "setToken"
    /\ IF ok
       THEN /\ tokens' = [tokens EXCEPT !.token = refresh.newToken]
            /\ refresh' = [refresh EXCEPT !.pc = "setRefreshToken"]
            /\ UNCHANGED <<isRefreshing, failedQueue, requests>>
       ELSE CatchRefreshError
    /\ UNCHANGED outsideApi

\* lines 71-78 and 86-88: the new refresh token is stored, the queue is
\* resolved and emptied, the request that began the refresh is sent again
RefreshSetRefreshToken(ok) ==
    /\ refresh # <<>> /\ refresh.pc = "setRefreshToken"
    /\ IF ok
       THEN /\ tokens' = [tokens EXCEPT !.refreshToken = refresh.newToken]
            /\ requests' = [resolveQueue(requests, failedQueue, refresh.newToken) EXCEPT
                               ![refresh.owner] = sent(@, refresh.newToken)]
            /\ failedQueue' = <<>>
            /\ isRefreshing' = afterFinally(isRefreshing)
            /\ refresh' = <<>>
       ELSE CatchRefreshError
    /\ UNCHANGED outsideApi

\* clearTokens line 102, inside the catch
RefreshClearToken ==
    /\ refresh # <<>> /\ refresh.pc = "clearToken"
    /\ tokens' = [tokens EXCEPT !.token = 0]
    /\ refresh' = [refresh EXCEPT !.pc = "clearRefreshToken"]
    /\ UNCHANGED <<isRefreshing, requests, failedQueue>>
    /\ UNCHANGED outsideApi

\* clearTokens line 103, then lines 85-88: the error is thrown to the caller
RefreshClearRefreshToken ==
    /\ refresh # <<>> /\ refresh.pc = "clearRefreshToken"
    /\ tokens' = [tokens EXCEPT !.refreshToken = 0]
    /\ requests' = [requests EXCEPT ![refresh.owner].st = "rejected"]
    /\ isRefreshing' = afterFinally(isRefreshing)
    /\ refresh' = <<>>
    /\ UNCHANGED failedQueue
    /\ UNCHANGED outsideApi

ServerAnswers ==
    \/ \E r \in Req : Respond200(r)
    \/ \E r \in Req : RespondError(r)
    \/ \E r \in Req : Respond401(r)

RefreshAdvances ==
    \/ RefreshGetItem
    \/ RefreshPost200
    \/ RefreshPost401
    \/ RefreshPostError
    \/ \E ok \in BOOLEAN : RefreshSetToken(ok)
    \/ \E ok \in BOOLEAN : RefreshSetRefreshToken(ok)
    \/ RefreshClearToken
    \/ RefreshClearRefreshToken

NextApi ==
    \/ \E r \in Req : Send(r)
    \/ ServerAnswers
    \/ RefreshAdvances

SpecApi == InitApi /\ [][NextApi]_vars

\* Every request in flight is answered (axios has a timeout of 30 s, line
\* 16) and every await of the refresh returns.
SpecApiLive == SpecApi /\ WF_vars(ServerAnswers) /\ WF_vars(RefreshAdvances)

(***************************************************************************)
(* receiptOCR.ts: extractTextFromImage and the classification part of      *)
(* parseReceiptText.  A value that may be undefined is <<>> or <<v>>.  The  *)
(* text of a receipt is its length; what the patterns of parseReceiptText  *)
(* find in it, what the OCR engines and Gemini answer and whether the      *)
(* device is online are inputs.                                            *)
(***************************************************************************)
MIN_TEXT_LENGTH == 10
MIN_REQUIRED_FIELDS == 1

\* JavaScript's Boolean(v) for a number that may be undefined, and for a
\* string that may be undefined
Truthy(v) == v # <<>> /\ v[1] # 0
TruthyText(v) == v # <<>> /\ v[1] # ""

\* line 327 never true
tooShort_Never(length) == FALSE

\* line 327
tooShort(length) == length < MIN_TEXT_LENGTH

\* line 678 without the test of the key
keywordsOnly_WhenOffline(isOnline, hasKey) == ~isOnline

\* line 678: !isOnline || !GEMINI_API_KEY
keywordsOnly(isOnline, hasKey) == ~isOnline \/ ~hasKey

\* classifyWithGemini (lines 121-199): the answer of Gemini is "throws"
\* (fetch or response.json() throws), "nojson" (no JSON object in the
\* text) or "json" with a category and a confidence.  Every error is caught
\* at line 195 and answered like a missing category.
classifyWithGemini(hasKey, answer) ==
    IF hasKey /\ answer.kind = "json"
    THEN [category |-> answer.category, confidence |-> answer.confidence]
    ELSE [category |-> <<>>, confidence |-> "low"]

\* parseReceiptText (lines 549-739): fields is what lines 556-659 extract,
\* keyword the answer of classifyReceipt
parseReceiptText(ocrResult, fields, isOnline, hasKey, answer, keyword) ==
    LET classified(category, confidence, method, review) ==
            [amount |-> fields.amount, date |-> fields.date, merchantName |-> fields.merchantName,
             category |-> category, confidence |-> confidence,
             classificationMethod |-> method, needsAiReview |-> review]
    IN  IF TruthyText(ocrResult.geminiCategory) /\ ocrResult.geminiCategoryConfidence = "high"
        THEN classified(ocrResult.geminiCategory, "high", "ai", FALSE)
        ELSE IF keywordsOnly(isOnline, hasKey)
        THEN classified(keyword.category, keyword.confidence, "offline", TRUE)
        ELSE LET gemini == classifyWithGemini(hasKey, answer)
             IN  IF TruthyText(gemini.category) /\ gemini.confidence = "high"
                 THEN classified(gemini.category, "high", "ai", FALSE)
                 ELSE classified(IF TruthyText(gemini.category) THEN gemini.category ELSE keyword.category,
                                 gemini.confidence,
                                 IF TruthyText(gemini.category) THEN "ai" ELSE "keyword",
                                 FALSE)

\* extractTextFromImage (lines 311-357).  device is what extractTextOnDevice
\* does: it throws, or it returns a text of some length in which the
\* patterns find the fields; geminiOk is whether extractTextWithGemini
\* returns.
extractTextFromImage(forceCloud, device, geminiOk, isOnline) ==
    LET cloud(deviceRan) ==
            [deviceRan |-> deviceRan, geminiRan |-> TRUE,
             method |-> IF geminiOk THEN "cloud" ELSE "",
             error |-> IF geminiOk THEN ""
                       ELSE IF deviceRan THEN "All OCR methods failed. Please try with a clearer image."
                       ELSE "Gemini OCR failed"]
        parsed == parseReceiptText([geminiCategory |-> <<>>, geminiCategoryConfidence |-> ""],
                                   device.fields, isOnline, TRUE,
                                   [kind |-> "throws", category |-> <<>>, confidence |-> "low"],
                                   [category |-> <<>>, confidence |-> "low"])
        fieldCount == Cardinality({f \in {"amount", "date", "merchantName"} : Truthy(parsed[f])})
    IN  IF forceCloud THEN cloud(FALSE)
        ELSE IF device.throws THEN cloud(TRUE)
        ELSE IF tooShort(device.length) THEN cloud(TRUE)
        ELSE IF fieldCount < MIN_REQUIRED_FIELDS THEN cloud(TRUE)
        ELSE [deviceRan |-> TRUE, geminiRan |-> FALSE, method |-> "device", error |-> ""]

\* The inputs of the model.
ParsedFields == [amount : {<<>>, <<0>>, <<150>>}, date : {<<>>, <<20240115>>}, merchantName : {<<>>, <<1>>}]
DeviceAnswers == [throws : BOOLEAN, length : {MIN_TEXT_LENGTH - 1, MIN_TEXT_LENGTH}, fields : ParsedFields]
Categories == {<<>>, <<"medical_vax">>}
Confidences == {"high", "medium", "low"}
GeminiAnswers ==
    {[kind |-> "throws", category |-> <<>>, confidence |-> "low"],
     [kind |-> "nojson", category |-> <<>>, confidence |-> "low"]}
    \cup [kind : {"json"}, category : Categories, confidence : Confidences]
KeywordAnswers == [category : {<<>>, <<"lifestyle_books">>}, confidence : {"medium", "low"}]
VisionResults ==
    {[geminiCategory |-> <<>>, geminiCategoryConfidence |-> ""],
     [geminiCategory |-> <<"medical_dental">>, geminiCategoryConfidence |-> "high"],
     [geminiCategory |-> <<"medical_dental">>, geminiCategoryConfidence |-> "low"]}

InitOcr ==
    /\ ocrCall = <<>>
    /\ parseCall = <<>>
    /\ TaxIdle /\ ResolverIdle /\ CategoryIdle /\ ConfigIdle /\ DashboardIdle /\ MenuIdle /\ StorageIdle /\ ApiIdle /\ SyncIdle

ExtractTextFromImage(forceCloud, device, geminiOk, isOnline) ==
    /\ ocrCall' = [forceCloud |-> forceCloud, device |-> device, geminiOk |-> geminiOk,
                   result |-> extractTextFromImage(forceCloud, device, geminiOk, isOnline)]
    /\ parseCall' = <<>>
    /\ UNCHANGED outsideOcr

ParseReceiptText(ocrResult, fields, isOnline, hasKey, answer, keyword) ==
    /\ parseCall' = [ocrResult |-> ocrResult, isOnline |-> isOnline, hasKey |-> hasKey,
                     answer |-> answer, keyword |-> keyword,
                     result |-> parseReceiptText(ocrResult, fields, isOnline, hasKey, answer, keyword)]
    /\ ocrCall' = <<>>
    /\ UNCHANGED outsideOcr

NextOcr ==
    \/ \E forceCloud \in BOOLEAN, device \in DeviceAnswers, geminiOk \in BOOLEAN, isOnline \in BOOLEAN :
          ExtractTextFromImage(forceCloud, device, geminiOk, isOnline)
    \/ \E ocrResult \in VisionResults, isOnline \in BOOLEAN, hasKey \in BOOLEAN, answer \in GeminiAnswers, keyword \in KeywordAnswers :
          ParseReceiptText(ocrResult, [amount |-> <<150>>, date |-> <<20240115>>, merchantName |-> <<1>>], isOnline, hasKey, answer, keyword)

SpecOcr == InitOcr /\ [][NextOcr]_vars

(***************************************************************************)
(* Properties of the progressive tax calculator                            *)
(***************************************************************************)
\* The marginal-bracket reference: over the brackets from index i on, the
\* sum of max(0, min(income, bound) - previousBound) * rate.
RECURSIVE MarginalReference(_, _, _, _)
MarginalReference(bs, inc, i, previousBound) ==
    IF i > Len(bs) THEN 0
    ELSE Max(0, Min(inc, bs[i].max) - previousBound) * bs[i].rate
         + MarginalReference(bs, inc, i + 1, bs[i].max)

\* The tax on the brackets 1..k taken whole.
RECURSIVE WholeBrackets(_, _)
WholeBrackets(bs, k) ==
    IF k = 0 THEN 0
    ELSE (bs[k].max - (IF k = 1 THEN 0 ELSE bs[k - 1].max)) * bs[k].rate
         + WholeBrackets(bs, k - 1)

\* C2: for every year and every chargeable income above 0 the tax equals
\* the marginal-bracket reference on that year's bracket list; an income
\* equal to a bracket bound is taxed with the brackets up to that bound
\* only; 100000 in 2025 gives 9400.
C2_MarginalReference ==
    income > 0 =>
        LET bs == getTaxBrackets(year) IN
        /\ tax = MarginalReference(bs, income, 1, 0)
        /\ \A k \in 1 .. Len(bs) :
              income = bs[k].max => tax = WholeBrackets(bs, k)
        /\ (year = 2025 /\ income = 100000) => tax = 9400 * 1000

C2_Witness == year = 2025 /\ income = 100000 /\ tax = 9400000

\* C8: for every year, configured or not, the bracket list the calculator
\* walks is the taxBrackets list of the config the resolver returns.
C8_BracketsOfResolver ==
    brackets # <<>> => brackets = getTaxBrackets(year)

C8_Witness ==
    /\ year \notin ConfiguredYears
    /\ year > 2025
    /\ brackets # <<>>
    /\ brackets = YEAR_CONFIGS[2025].taxBrackets

\* C9: in every year the tax is 0 for every income at or below 5000, zero
\* and negative incomes included, and strictly positive above 5000.
C9_ZeroUpTo5000 ==
    /\ income <= 5000 => tax = 0
    /\ income > 5000 => tax > 0

C9_Witness ==
    /\ income = 5001 /\ tax > 0
    /\ prevCall # <<>> /\ prevCall[1].income = 5000 /\ prevCall[1].tax = 0

\* C10: for a configured year, a <= b implies tax(a) <= tax(b).
C10_Monotone ==
    (year \in ConfiguredYears /\ prevCall # <<>>) =>
        /\ prevCall[1].income <= income => prevCall[1].tax <= tax
        /\ prevCall[1].income >= income => prevCall[1].tax >= tax

C10_Witness ==
    /\ year \in ConfiguredYears
    /\ prevCall # <<>>
    /\ prevCall[1].income < income
    /\ prevCall[1].tax < tax

Counts(c, r) == r.status = "verified" /\ r.category = c.id

CountedReceipts(c, rs) == SelectSeq(rs, LAMBDA r : Counts(c, r))

\* The total of the counted receipts filed under subCategory id.
RefTotal(c, rs, id) ==
    SumSeq([i \in 1 .. Len(rs) |->
               IF Counts(c, rs[i]) /\ rs[i].subCategory = id
               THEN Max(0, rs[i].amount) ELSE 0])

RefClamp(total, subLimit) == IF subLimit # 0 THEN Min(total, subLimit) ELSE total

\* The sub-limit of an id: the one of the category's item with that id, and
\* for an id that is no item of the category the one of the catalogue.
RefSubLimit(c, id) ==
    IF \E i \in 1 .. Len(c.items) : c.items[i].id = id
    THEN (CHOOSE it \in { c.items[i] : i \in 1 .. Len(c.items) } : it.id = id).subLimit
    ELSE IF \E k \in DOMAIN DEDUCTIBLES : DEDUCTIBLES[k].id = id
    THEN (CHOOSE it \in { DEDUCTIBLES[k] : k \in DOMAIN DEDUCTIBLES } : it.id = id).subLimit
    ELSE 0

InSomePool(c, id) == \E k \in 1 .. Len(c.sharedPools) : Includes(c.sharedPools[k].items, id)

\* U: the clamped totals of the category's items that are in no pool.
RefUnpooled(c, rs) ==
    SumSeq([i \in 1 .. Len(c.items) |->
               IF InSomePool(c, c.items[i].id) THEN 0
               ELSE RefClamp(RefTotal(c, rs, c.items[i].id), c.items[i].subLimit)])

\* P as the claim words it: per pool, the clamped totals of the ids the
\* pool lists, capped by the pool limit.
RefPooledListed(c, rs) ==
    SumSeq([k \in 1 .. Len(c.sharedPools) |->
        LET pool == c.sharedPools[k] IN
        Min(pool.limit,
            SumSeq([j \in 1 .. Len(pool.items) |->
                       RefClamp(RefTotal(c, rs, pool.items[j]),
                                RefSubLimit(c, pool.items[j]))]))])

\* P over the category's items only: per pool, the clamped totals of the
\* category's items whose first listing pool it is, capped by the pool limit.
RefPooledItems(c, rs) ==
    SumSeq([k \in 1 .. Len(c.sharedPools) |->
        LET pool == c.sharedPools[k] IN
        Min(pool.limit,
            SumSeq([i \in 1 .. Len(c.items) |->
                       IF /\ Includes(pool.items, c.items[i].id)
                          /\ \A j \in 1 .. k - 1 :
                                ~Includes(c.sharedPools[j].items, c.items[i].id)
                       THEN RefClamp(RefTotal(c, rs, c.items[i].id), c.items[i].subLimit)
                       ELSE 0]))])

\* C1 as stated: for a non-automatic category claimable is
\* min(limit, U + P), P summing for each pool the clamped totals of every
\* id the pool lists.
C1_ClaimableListedPoolIds ==
    ~cat.isAutomatic =>
        stats.claimable =
            Min(cat.limit, RefUnpooled(cat, receiptList) + RefPooledListed(cat, receiptList))

\* C1 amended: for a non-automatic category claimable is min(limit, U + P),
\* where P sums for each pool min(pool.limit, clamped totals of the
\* category's items that the pool lists); an id that a pool lists without
\* being an item of the category contributes nothing.
C1_ClaimableOfItems ==
    ~cat.isAutomatic =>
        stats.claimable =
            Min(cat.limit, RefUnpooled(cat, receiptList) + RefPooledItems(cat, receiptList))

\* item_a 700 is clamped to 500 before the pool sum, the pool of item_a and
\* item_b (500 + 700) gives its limit 1000, item_c adds 6000.
C1_Witness ==
    /\ cat = PoolExample
    /\ Len(receiptList) = 3
    /\ RefTotal(cat, receiptList, "item_a") = 700
    /\ RefTotal(cat, receiptList, "item_b") = 700
    /\ RefTotal(cat, receiptList, "item_c") = 6000
    /\ stats.claimable = 7000

\* C3: for every category and receipt list, negative amounts included,
\* 0 <= claimable <= limit and remaining = limit - claimable >= 0.
C3_ClaimableWithinLimit ==
    /\ 0 <= stats.claimable
    /\ stats.claimable <= cat.limit
    /\ stats.remaining = cat.limit - stats.claimable
    /\ stats.remaining >= 0

\* A negative receipt beside receipts that exceed the limit.
C3_Witness ==
    /\ ~cat.isAutomatic
    /\ \E i \in 1 .. Len(receiptList) :
          Counts(cat, receiptList[i]) /\ receiptList[i].amount < 0
    /\ stats.totalSpent > cat.limit
    /\ stats.claimable = cat.limit
    /\ stats.remaining = 0

\* C4: an automatic category has claimable = limit, remaining = 0 and
\* percent = 100 whatever the receipt list holds.
C4_AutomaticFullyClaimed ==
    cat.isAutomatic =>
        /\ stats.claimable = cat.limit
        /\ stats.remaining = 0
        /\ stats.percent = Ratio(100, 1)

\* An automatic category with a verified receipt of its own in the list.
C4_Witness ==
    /\ cat.isAutomatic
    /\ \E i \in 1 .. Len(receiptList) :
          /\ Counts(cat, receiptList[i])
          /\ receiptList[i].subCategory = cat.items[1].id
          /\ receiptList[i].amount > 0
    /\ stats.claimable = cat.limit

\* C5 as stated: totalSpent is the sum of the amounts of all verified
\* receipts of the category.
C5_TotalSpentAllReceipts ==
    ~cat.isAutomatic =>
        stats.totalSpent =
            SumSeq([i \in 1 .. Len(receiptList) |->
                       IF Counts(cat, receiptList[i])
                       THEN Max(0, receiptList[i].amount) ELSE 0])

\* C5 amended: totalSpent is the sum, over the category's items, of the
\* unclamped totals of the verified receipts of the category filed under
\* that item; a receipt filed under a subCategory that is no item of the
\* category is not counted.
C5_TotalSpentOfItems ==
    ~cat.isAutomatic =>
        stats.totalSpent =
            SumSeq([i \in 1 .. Len(cat.items) |->
                       RefTotal(cat, receiptList, cat.items[i].id)])

\* More spent on a sub-limited item than can be claimed.
C5_Witness ==
    /\ cat.id = "medical"
    /\ RefTotal(cat, receiptList, "medical_vax") = 6700
    /\ stats.totalSpent = 6700
    /\ stats.claimable = 1000

\* C6: a step that leaves the verified receipts of the category as they
\* were (it adds, removes or changes only receipts of another status or
\* another category) changes no field of the stats.
C6_OnlyCountedReceiptsMatter ==
    [][ CountedReceipts(cat, receiptList') = CountedReceipts(cat, receiptList)
            => stats' = stats ]_vars

\* A counted receipt beside one of an unconfigured category and a pending
\* one: the stats are those of the counted receipt alone.
C6_Witness ==
    /\ ~cat.isAutomatic
    /\ Len(receiptList) = 3
    /\ Counts(cat, receiptList[1]) /\ receiptList[1].amount = 700
    /\ receiptList[1].subCategory = cat.items[1].id
    /\ receiptList[2].category = "no_such_category"
    /\ receiptList[3].status = "pending"
    /\ stats = computeCategoryData(cat, <<receiptList[1]>>)
    /\ stats.totalSpent = 700

(***************************************************************************)
(* Properties of the bracket tables                                        *)
(***************************************************************************)
AllBracketTables ==
    { YEAR_CONFIGS[y].taxBrackets : y \in DOMAIN YEAR_CONFIGS }
    \cup { TAX_BRACKETS.post_2023, TAX_BRACKETS.pre_2023 }

WellFormedTable(bs) ==
    /\ Len(bs) >= 1
    /\ \A i \in 1 .. Len(bs) - 1 : bs[i].max < bs[i + 1].max
    /\ bs[Len(bs)].max = Infinity
    /\ \A i \in 1 .. Len(bs) - 1 : bs[i].rate <= bs[i + 1].rate
    /\ bs[1].rate = 0

\* C11: every bracket table (each configured year's taxBrackets and both
\* TAX_BRACKETS tables, hence also the table a call selects) has strictly
\* increasing upper bounds, ends with an unbounded bracket, has rates that
\* never decrease and starts with a 0% bracket.
C11_BracketTablesWellFormed ==
    /\ \A bs \in AllBracketTables : WellFormedTable(bs)
    /\ brackets # <<>> => brackets \in AllBracketTables /\ WellFormedTable(brackets)

\* A call that selected the eleven brackets of pre_2023 and taxed an income
\* in its last, unbounded bracket.
C11_Witness ==
    /\ brackets = TAX_BRACKETS.pre_2023
    /\ Len(brackets) = 11
    /\ income > brackets[10].max
    /\ tax > 0

Ids(cs) == { cs[i].id : i \in 1 .. Len(cs) }

ManualConfigs(cs) == { cs[i] : i \in { n \in 1 .. Len(cs) : ~cs[n].isAutomatic } }

ManualIds(cs) == { c.id : c \in ManualConfigs(cs) }

ById(cs, id) == CHOOSE c \in { cs[i] : i \in 1 .. Len(cs) } : c.id = id

HasChildren(profile) ==
    \/ profile.kidsUnder18 > 0 \/ profile.kidsPreU > 0 \/ profile.kidsDegree > 0
    \/ profile.kidsDisabled > 0 \/ profile.kidsDisabledDiploma > 0

HasDisability(profile) ==
    \/ profile.selfDisabled
    \/ (profile.status = "married" /\ profile.spouseDisabled)
    \/ profile.kidsDisabled > 0

ProfileDependent == {"childcare", "disabled_equip"}

\* C16 as stated: two calls for the same year return the same set of
\* non-automatic category ids, whatever the profiles.
C16_ManualIdsSameForEveryProfile ==
    (prevConfigs # <<>> /\ prevConfigs[1].year = cfgYear) =>
        ManualIds(configs) = ManualIds(prevConfigs[1].configs)

\* C16 amended: for a fixed year every manual category other than childcare
\* and disabled_equip is returned for every profile, with the same items
\* and limit; childcare is returned exactly for a profile with children and
\* disabled_equip exactly for a profile with a disabled taxpayer, spouse
\* (married) or child, both with a limit and items that do not depend on
\* the profile.
C16_ManualCategoriesByYear ==
    /\ (prevConfigs # <<>> /\ prevConfigs[1].year = cfgYear) =>
          /\ { c \in ManualConfigs(configs) : c.id \notin ProfileDependent }
                = { c \in ManualConfigs(prevConfigs[1].configs) : c.id \notin ProfileDependent }
          /\ \A c \in ManualConfigs(configs), d \in ManualConfigs(prevConfigs[1].configs) :
                c.id = d.id => c = d
    /\ "childcare" \in Ids(configs) <=> HasChildren(cfgProfile)
    /\ "disabled_equip" \in Ids(configs) <=> HasDisability(cfgProfile)
    /\ \A i \in 1 .. Len(configs) :
          configs[i].id \in ProfileDependent => ~configs[i].isAutomatic

\* Two calls for 2025: one for a profile with two children, one for a
\* profile without dependents; only the first has childcare.
C16_Witness ==
    /\ cfgYear = 2025
    /\ prevConfigs # <<>>
    /\ prevConfigs[1].year = 2025
    /\ cfgProfile.kidsUnder18 = 2
    /\ ~HasChildren(prevConfigs[1].profile)
    /\ "childcare" \in Ids(configs)
    /\ "childcare" \notin Ids(prevConfigs[1].configs)
    /\ "medical" \in Ids(configs) /\ "medical" \in Ids(prevConfigs[1].configs)

(***************************************************************************)
(* The categories of getYearConfig against the data of yearConfigs.ts      *)
(***************************************************************************)
\* The categoryLimits entry that belongs to a category id.  The two sports
\* categories (sports from 2024, sports_extra before) share the entry
\* `sports`; the limit of child_relief is made of the five per-child entries.
LimitOfYear(y, id, profile) ==
    LET L == getCategoryLimits(y) IN
    CASE id = "lifestyle"        -> L.lifestyle
      [] id = "sports"           -> L.sports
      [] id = "sports_extra"     -> L.sports
      [] id = "medical"          -> L.medical
      [] id = "medical_parents"  -> L.medicalParents
      [] id = "education_self"   -> L.educationSelf
      [] id = "insurance_ed_med" -> L.insuranceEdMed
      [] id = "prs"              -> L.prs
      [] id = "sspn"             -> L.sspn
      [] id = "childcare"        -> L.childcare
      [] id = "breastfeeding"    -> L.breastfeeding
      [] id = "disabled_equip"   -> L.disabledEquip
      [] id = "ev"               -> L.ev
      [] id = "socso"            -> L.socso
      [] id = "life_insurance"   -> L.lifeInsurance
      [] id = "spouse"           -> L.spouse
      [] id = "disabled_self"    -> L.disabledSelf
      [] id = "disabled_spouse"  -> L.disabledSpouse
      [] id = "child_relief"     ->
              profile.kidsUnder18 * L.childU18 + profile.kidsPreU * L.childPreU
            + profile.kidsDegree * L.childDegree + profile.kidsDisabled * L.childDisabled
            + profile.kidsDisabledDiploma * L.childDisabledDiploma

ItemIds(c) == { c.items[i].id : i \in 1 .. Len(c.items) }

\* The parts of the comparison that do not concern a category limit: the
\* medical pool limit and the four feature flags.
FeaturesMatch ==
    LET F == getYearFeatures(cfgYear)
        med == ById(configs, "medical")
    IN  /\ Len(med.sharedPools) = 1
        /\ med.sharedPools[1].limit = F.medicalSharedPoolLimit
        /\ "medical_dental" \in ItemIds(med) <=> F.hasDental
        /\ "medical_child_dev" \in ItemIds(med) <=> F.hasChildDev
        /\ "sports" \in Ids(configs) <=> F.hasSportsSeparate
        /\ "ev" \in Ids(configs) <=> F.hasEvCharging

\* C17 as stated: for every configured year each category built by
\* getYearConfig has the limit of that year's categoryLimits entry, the
\* medical pool has medicalSharedPoolLimit, and dental, child development,
\* the separate sports category and EV follow the four flags.
C17_EngineMatchesYearConfigs ==
    cfgYear \in ConfiguredYears =>
        /\ \A i \in 1 .. Len(configs) :
              configs[i].limit = LimitOfYear(cfgYear, configs[i].id, cfgProfile)
        /\ FeaturesMatch

\* What holds of C17: the same comparison with the sports_extra category of
\* 2022 and 2023 left out, whose limit is 500 where categoryLimits.sports
\* of those years is 0.
C17_MatchesExceptSportsExtra ==
    cfgYear \in ConfiguredYears =>
        /\ \A i \in 1 .. Len(configs) :
              IF configs[i].id = "sports_extra" /\ cfgYear \in {2022, 2023}
              THEN /\ configs[i].limit = 500
                   /\ LimitOfYear(cfgYear, "sports_extra", cfgProfile) = 0
              ELSE configs[i].limit = LimitOfYear(cfgYear, configs[i].id, cfgProfile)
        /\ FeaturesMatch

\* 2023 for a profile with a child: medical 10000 and the child relief of
\* one degree student and one pre-university child, both as in yearConfigs.
C17_Witness ==
    /\ cfgYear = 2023
    /\ cfgProfile.kidsDegree = 1 /\ cfgProfile.kidsPreU = 1
    /\ ById(configs, "medical").limit = 10000
    /\ ById(configs, "child_relief").limit = 10000
    /\ "sports_extra" \in Ids(configs)
    /\ "medical_child_dev" \in ItemIds(ById(configs, "medical"))
    /\ "medical_dental" \notin ItemIds(ById(configs, "medical"))

(***************************************************************************)
(* Properties of the dashboard                                             *)
(***************************************************************************)
NoDependents(profile) ==
    /\ ~HasChildren(profile)
    /\ ~profile.selfDisabled /\ ~profile.spouseDisabled

\* The state of the end-to-end example: 2025, no dependents, and one
\* receipt in all, a verified vaccination receipt of 1200 that the
\* dashboard counts for 2025.
VaccinationScenario ==
    /\ selectedYear = 2025
    /\ NoDependents(userProfile)
    /\ Len(appReceipts) = 1
    /\ appReceipts[1].status = "verified"
    /\ appReceipts[1].category = "medical"
    /\ appReceipts[1].subCategory = "medical_vax"
    /\ appReceipts[1].amount = 1200
    /\ yearReceiptsOf(appReceipts, selectedYear, timezone) = appReceipts

\* C12: in the example the vaccination item has subLimit 1000 and sits in
\* a pool of limit 1000, the medical limit is 10000, the pool sum after the
\* item clamp is 1000 and the medical category has claimable 1000.
C12_VaccinationExample ==
    VaccinationScenario =>
        LET med == ById(getYearConfig(2025, userProfile), "medical")
            vax == CHOOSE it \in { med.items[i] : i \in 1 .. Len(med.items) } :
                      it.id = "medical_vax"
        IN  /\ vax.subLimit = 1000
            /\ Len(med.sharedPools) = 1
            /\ med.sharedPools[1].limit = 1000
            /\ Includes(med.sharedPools[1].items, "medical_vax")
            /\ med.limit = 10000
            /\ itemsPass(med, appReceipts).sharedPoolUsage[1].used = 1000
            /\ dash.catStats["medical"].claimable = 1000
            /\ dash.catStats["medical"].totalSpent = 1200

C12_Witness ==
    /\ VaccinationScenario
    /\ userProfile = DEFAULT_PROFILE
    /\ dash.catStats["medical"].claimable = 1000
    /\ dash.totalClaimable = 1000

\* The surcharge the claim describes, in thousandths of a ringgit.
ExpectedSurcharge(y, dividends) ==
    IF y >= 2025 /\ dividends > 100000 THEN (dividends - 100000) * 20 ELSE 0

\* C14: the tax of the dashboard is the bracket tax of the chargeable
\* income plus 2% of the dividend income above 100000 exactly when the year
\* is 2025 or later and the dividend income exceeds 100000, and plus
\* nothing otherwise; the addition is a function of the year and the
\* dividend income alone.
C14_DividendSurcharge ==
    /\ dash.bracketTax = calculateProgressiveTax(dash.chargeableIncome, selectedYear)
    /\ dash.taxCalculated = dash.bracketTax + ExpectedSurcharge(selectedYear, dash.dividendIncome)
    /\ \A y \in MinYear .. MaxYear, d \in {0, 100000, 100010, 150000} :
          dividendSurcharge(y, d) = ExpectedSurcharge(y, d)

\* 2025, dividends of 150000, the married profile: 1000 ringgit are added.
C14_Witness ==
    /\ selectedYear = 2025
    /\ dash.dividendIncome = 150000
    /\ userProfile.status = "married"
    /\ dash.chargeableIncome > 0
    /\ dash.taxCalculated = dash.bracketTax + 1000000

\* The verified receipts whose date text lies in year y.
VerifiedOfYear(rs, y) ==
    { rs[i] : i \in { n \in 1 .. Len(rs) :
                        rs[n].status = "verified" /\ rs[n].date \div 10000 = y } }

\* A step that keeps the year and the profile and leaves the verified
\* receipts dated in the selected year as they were keeps every category's
\* stats and the total claimable.
ReliefFrame ==
    (/\ selectedYear' = selectedYear
     /\ userProfile' = userProfile
     /\ VerifiedOfYear(appReceipts', selectedYear) = VerifiedOfYear(appReceipts, selectedYear))
    => (dash'.catStats = dash.catStats /\ dash'.totalClaimable = dash.totalClaimable)

\* C18 as stated: adding, removing or editing a receipt that is not
\* verified or is dated in another year changes no relief figure.
C18_OnlyVerifiedOfYear == [][ReliefFrame]_vars

\* What holds of C18: the same on a device whose timezone is at or east of
\* UTC.
C18_OnlyVerifiedOfYearEastOfUTC == [][timezone >= 0 => ReliefFrame]_vars

\* 2025 in Kuala Lumpur: a verified vaccination receipt of the first of
\* January 2025 counts; the book receipt under review does not.
C18_Witness ==
    /\ timezone = 8
    /\ selectedYear = 2025
    /\ userProfile = DEFAULT_PROFILE
    /\ Len(appReceipts) = 2
    /\ \E i \in 1 .. 2 : /\ appReceipts[i].id = "r1"
                         /\ appReceipts[i].status = "verified"
                         /\ appReceipts[i].date = 20250101
    /\ \E i \in 1 .. 2 : appReceipts[i].id = "r2" /\ appReceipts[i].status = "review"
    /\ dash.totalClaimable = 1000
    /\ dash.catStats["lifestyle"].claimable = 0


(***************************************************************************)
(* The page menu at load and under clicks                                  *)
(***************************************************************************)
\* The three indicators of an open menu, and of a closed one.
MenuShownOpen == navOpen = "true" /\ navAriaHidden = "false" /\ toggleAriaExpanded = "true"
MenuShownClosed == navOpen = "false" /\ navAriaHidden = "true" /\ toggleAriaExpanded = "false"

\* The step in which the script runs, and the step of one click.
LoadStep == ~loaded /\ loaded'
ClickStep == loaded /\ Len(clicks') = Len(clicks) + 1

\* C19: when script.js has run at page load, the body has has-js and not
\* no-js; on a page with the menu, the menu is open (data-open 'true',
\* aria-hidden 'false', aria-expanded 'true') when innerWidth > 900 and
\* closed ('false', 'true', 'false') otherwise, and the toggle has no
\* is-active in either case, whatever the markup was.
C19_MenuAfterLoad ==
    [][LoadStep =>
        /\ "has-js" \in bodyClasses' /\ "no-js" \notin bodyClasses'
        /\ hasMenu =>
            /\ IF innerWidth' > 900 THEN MenuShownOpen' ELSE MenuShownClosed'
            /\ "is-active" \notin toggleClasses']_vars

\* The script has just run on a page with the menu at 900 wide: the menu is
\* closed, the toggle is inactive and the body has has-js.
C19_Witness ==
    /\ lastEvent = "load" /\ hasMenu /\ innerWidth = 900
    /\ "has-js" \in bodyClasses /\ MenuShownClosed /\ toggleClasses = {}

\* After n clicks in a row that began at a closed menu, the menu is open
\* exactly when n is odd.
ClickParity ==
    (clicks # <<>> /\ clicks[1] = "false") =>
        \A n \in 1..(Len(clicks) - 1) : (clicks[n + 1] = "true") <=> (n % 2 = 1)

\* C20: every click on the toggle flips the menu between closed and open,
\* so that n clicks from a closed menu leave it open exactly when n is odd;
\* at a width of at most 900 the click that opens adds is-active and sets
\* aria-expanded 'true', and the click that closes removes is-active and
\* sets aria-expanded 'false' and aria-hidden 'true'.
C20_ClickFlipsMenu ==
    [][ClickStep =>
        /\ (navOpen' = "true") <=> (navOpen = "false")
        /\ navOpen' \in {"true", "false"}
        /\ ClickParity'
        /\ innerWidth <= 900 =>
            IF navOpen' = "true"
            THEN "is-active" \in toggleClasses' /\ toggleAriaExpanded' = "true"
            ELSE /\ "is-active" \notin toggleClasses'
                 /\ toggleAriaExpanded' = "false" /\ navAriaHidden' = "true"]_vars

\* Three clicks in a row from a closed menu at 900 wide: open and active.
C20_Witness ==
    /\ lastEvent = "click" /\ innerWidth = 900
    /\ clicks = <<"false", "true", "false", "true">>
    /\ "is-active" \in toggleClasses /\ toggleAriaExpanded = "true"

(***************************************************************************)
(* The page menu under resize events, and its indicators                   *)
(***************************************************************************)
\* The step of one resize event.
ResizeStep == loaded /\ lastEvent' = "resize"

\* C21: from every reachable state of the menu, a resize event that arrives
\* while window.innerWidth > 900 leaves the menu open (data-open 'true',
\* aria-expanded 'true') and the toggle without is-active.
C21_ResizeToDesktopOpens ==
    [][(ResizeStep /\ innerWidth' > 900) =>
        /\ navOpen' = "true" /\ toggleAriaExpanded' = "true"
        /\ "is-active" \notin toggleClasses']_vars

\* A resize event has just run at 901 wide: open, toggle inactive.
C21_Witness ==
    /\ lastEvent = "resize" /\ innerWidth = 901
    /\ navOpen = "true" /\ toggleAriaExpanded = "true" /\ toggleClasses = {}

\* C29: once the script has run on a page with the menu, data-open is
\* 'true' exactly when aria-hidden is 'false' and exactly when
\* aria-expanded is 'true', and the toggle has is-active only while the
\* menu is open.
C29_IndicatorsAgree ==
    (loaded /\ hasMenu) =>
        /\ (navOpen = "true") <=> (navAriaHidden = "false")
        /\ (navOpen = "true") <=> (toggleAriaExpanded = "true")
        /\ "is-active" \in toggleClasses => navOpen = "true"

\* A resize event at a width of at most 900 found the toggle active and
\* left the menu open, with the three indicators in agreement.
C29_Witness ==
    /\ lastEvent = "resize" /\ innerWidth = 600
    /\ "is-active" \in toggleClasses /\ MenuShownOpen

(***************************************************************************)
(* The receipts in local storage under saveReceipt and deleteReceipt       *)
(***************************************************************************)
\* The receipts that storage holds.
StoredList(storage) == IF storage.receipts = <<>> THEN <<>> ELSE storage.receipts[1]

DistinctIds(list) == \A i, j \in 1 .. Len(list) : i # j => list[i].id # list[j].id

\* The receipts of list with another id than id, in their order.
RECURSIVE OthersThan(_, _)
OthersThan(list, id) ==
    IF list = <<>> THEN <<>>
    ELSE IF Head(list).id = id THEN OthersThan(Tail(list), id)
    ELSE <<Head(list)>> \o OthersThan(Tail(list), id)

\* What a saveReceipt(r) and a deleteReceipt(id) are to do to the list.
Saved(before, after, r) ==
    /\ Cardinality({i \in 1 .. Len(after) : after[i].id = r.id}) = 1
    /\ \E i \in 1 .. Len(after) : after[i] = r
    /\ OthersThan(after, r.id) = OthersThan(before, r.id)
Deleted(before, after, id) ==
    /\ \A i \in 1 .. Len(after) : after[i].id # id
    /\ OthersThan(after, id) = OthersThan(before, id)
    /\ (\A i \in 1 .. Len(before) : before[i].id # id) => after = before
EffectApplied(call, before, after) ==
    IF call.op = "saveReceipt" THEN Saved(before, after, call.arg) ELSE Deleted(before, after, call.arg)

\* The step in which the saveReceipt or deleteReceipt of slot c writes and
\* resolves.
WritesAndResolves(c) ==
    /\ calls[c] # <<>> /\ calls[c].pc = "write"
    /\ calls'[c] # <<>> /\ calls'[c].pc = "resolved"

\* A call that ran from its start to its end with no other call in progress.
RanAlone(c) == ~calls[c].overlapped

\* C28 as stated: every saveReceipt(r) and deleteReceipt(id) that runs to
\* its end alone leaves distinct ids, exactly one receipt of id r.id, equal
\* to r (no receipt of the deleted id), and every other receipt unchanged.
C28_UpsertAndDelete ==
    [][\A c \in Slots : (WritesAndResolves(c) /\ RanAlone(c)) =>
        /\ EffectApplied(calls[c], StoredList(asyncStorage), StoredList(asyncStorage'))
        /\ DistinctIds(StoredList(asyncStorage)) => DistinctIds(StoredList(asyncStorage'))]_vars

\* C28 for the calls whose loadReceipts read the stored list: the same
\* effects, for a call that runs alone and whose getItem did not throw.
C28_UpsertAndDeleteAfterGoodRead ==
    [][\A c \in Slots : (WritesAndResolves(c) /\ RanAlone(c) /\ calls[c].readOk) =>
        /\ EffectApplied(calls[c], StoredList(asyncStorage), StoredList(asyncStorage'))
        /\ DistinctIds(StoredList(asyncStorage)) => DistinctIds(StoredList(asyncStorage'))]_vars

\* saveReceipt of r1 with a new amount ran alone on a storage of r1 and r2:
\* r1 is replaced in its place, r2 is as it was.
C28_Witness ==
    \E c \in Slots :
        /\ Ended(c) /\ calls[c].pc = "resolved" /\ calls[c].op = "saveReceipt"
        /\ ~calls[c].overlapped /\ calls[c].readOk
        /\ calls[c].arg = StoredReceipt("r1", 20)
        /\ StoredList(asyncStorage) = <<StoredReceipt("r1", 20), StoredReceipt("r2", 10)>>

\* Two calls on the receipts, of different ids, that were in progress at the
\* same time and both resolved after good reads.
IdOf(call) == IF call.op = "saveReceipt" THEN call.arg.id ELSE call.arg
OnReceipts(c) ==
    /\ Ended(c) /\ calls[c].pc = "resolved"
    /\ calls[c].op \in {"saveReceipt", "deleteReceipt"} /\ calls[c].readOk
ConcurrentPair(c, d) ==
    /\ c # d /\ OnReceipts(c) /\ OnReceipts(d)
    /\ calls[c].overlapped /\ calls[d].overlapped
    /\ IdOf(calls[c]) # IdOf(calls[d])
    /\ "saveReceipt" \in {calls[c].op, calls[d].op}
EffectPresent(call, list) ==
    IF call.op = "saveReceipt"
    THEN \E i \in 1 .. Len(list) : list[i] = call.arg
    ELSE \A i \in 1 .. Len(list) : list[i].id # call.arg

\* C22 as stated: two saveReceipt calls of different ids, or a saveReceipt
\* and a deleteReceipt of different ids, that are in progress at the same
\* time end with both effects in storage, in every interleaving.
C22_NoLostUpdate ==
    \A c, d \in Slots : ConcurrentPair(c, d) =>
        /\ EffectPresent(calls[c], StoredList(asyncStorage))
        /\ EffectPresent(calls[d], StoredList(asyncStorage))

\* C22 for the interleavings the code is safe in: a call during which no
\* other call wrote the receipts between its read and its write applies its
\* effect to the list as it is when it writes, whatever else is in progress.
C22_NoLostUpdateWhenNothingWroteBetween ==
    [][\A c \in Slots : (WritesAndResolves(c) /\ calls[c].readOk /\ ~calls[c].stale) =>
        EffectApplied(calls[c], StoredList(asyncStorage), StoredList(asyncStorage'))]_vars

\* Two saves of different ids were in progress together, the second read
\* after the first wrote, and both receipts are stored.
C22_Witness ==
    \E c, d \in Slots :
        /\ ConcurrentPair(c, d) /\ ~calls[c].stale /\ ~calls[d].stale
        /\ calls[c].op = "saveReceipt" /\ calls[d].op = "saveReceipt"
        /\ EffectPresent(calls[c], StoredList(asyncStorage))
        /\ EffectPresent(calls[d], StoredList(asyncStorage))

(***************************************************************************)
(* Restores that are rejected                                              *)
(***************************************************************************)
\* The step in which the call of slot c is rejected for the version of the
\* backup, for the missing user or for the missing cloud backup.
RestoreRejected(c) ==
    /\ calls'[c] # <<>> /\ calls'[c].pc = "rejected"
    /\ calls'[c].reason \in {"version", "user", "backup"}
    /\ calls[c] = <<>> \/ calls[c].pc # "rejected"

\* C30: importFromJSON with a version other than '1.0', and restoreFromCloud
\* without a user or without a cloud backup, are rejected in a step that
\* leaves every key of AsyncStorage as it is, by a call that wrote nothing
\* before.
C30_RejectedRestoreChangesNothing ==
    [][\A c \in Slots : RestoreRejected(c) =>
        /\ asyncStorage' = asyncStorage
        /\ calls'[c].writes = 0]_vars

\* A backup of version 0.9 was rejected and the storage in use is whole.
C30_Witness ==
    \E c \in Slots :
        /\ Ended(c) /\ calls[c].op = "importFromJSON" /\ calls[c].reason = "version"
        /\ calls[c].arg.version = "0.9" /\ ~calls[c].overlapped
        /\ asyncStorage = StorageInUse

(***************************************************************************)
(* The token refresh of the API client                                     *)
(***************************************************************************)
Queued(r) == requests[r].st = "queued"

\* The refresh waits for the promise of its own POST /auth/refresh, which
\* is in failedQueue.
WaitsForItself == refresh # <<>> /\ refresh.pc = "queued"

\* C24 as stated: every refresh ends, and every request that was queued is
\* resolved or rejected in the end, whatever the answer to POST
\* /auth/refresh is.
C24_RefreshEnds ==
    /\ isRefreshing ~> ~isRefreshing
    /\ \A r \in Req : Queued(r) ~> ~Queued(r)

\* C24 for the refreshes whose POST is not answered with 401: such a
\* refresh ends.
C24_RefreshEndsUnlessItsPostGets401 ==
    (isRefreshing /\ ~WaitsForItself) ~> (~isRefreshing \/ WaitsForItself)

\* A refresh has run and ended with the new token stored; the request that
\* began it got its answer.
C24_Witness ==
    /\ ~isRefreshing /\ refresh = <<>> /\ tokens.token = 2
    /\ \E r \in Req : requests[r].retry /\ requests[r].st = "resolved"

\* The steps the claims about the refresh speak of.
Gets401(r) == requests[r].st = "inflight" /\ requests'[r].st # "inflight" /\ requests'[r].answer = 401
RefreshSucceeds == refresh # <<>> /\ refresh.pc = "setRefreshToken" /\ refresh' = <<>>
RefreshFails == refresh # <<>> /\ refresh.pc = "clearRefreshToken" /\ refresh' = <<>>
RefreshCaught == refresh # <<>> /\ refresh.pc \notin {"clearToken", "clearRefreshToken"} /\ refresh' # <<>> /\ refresh'.pc = "clearToken"
Refreshers == {r \in Req : requests[r].st = "refreshing"}

\* What holds of a refresh that succeeds: every queued request is sent
\* once more, with the new token; the queue is empty.
QueueRetried ==
    RefreshSucceeds =>
        /\ failedQueue' = <<>>
        /\ tokens'.token = refresh.newToken
        /\ \A r \in Req : Queued(r) =>
            /\ requests'[r].st = "inflight"
            /\ requests'[r].sends = requests[r].sends + 1
            /\ requests'[r].auth = tokens'.token

\* C26 as stated: one refresh at a time; a 401 during a refresh is queued
\* and starts none; a refresh that succeeds sends every queued request once
\* more with the new token and empties the queue; a refresh that fails has
\* rejected every queued request and cleared the tokens.
C26_SingleRefresh ==
    [][/\ Cardinality(Refreshers') <= 1
       /\ \A r \in Req : (Gets401(r) /\ isRefreshing) =>
            requests'[r].st = "queued" /\ refresh' = refresh
       /\ QueueRetried
       /\ RefreshFails =>
            /\ failedQueue' = <<>> /\ \A r \in Req : requests'[r].st # "queued"
            /\ tokens' = [token |-> 0, refreshToken |-> 0]]_vars

\* C26 as the code has it: one refresh at a time; a 401 during a refresh
\* starts none, and is queued unless the request was sent again before;
\* success as stated; at the catch of a failed refresh every request queued
\* so far is rejected and the queue emptied, and the refresh ends with the
\* tokens cleared.
C26_SingleRefreshQueuedUntilCatch ==
    [][/\ Cardinality(Refreshers') <= 1
       /\ \A r \in Req : (Gets401(r) /\ isRefreshing) =>
            /\ refresh' = refresh
            /\ requests'[r].st = IF requests[r].retry THEN "rejected" ELSE "queued"
       /\ QueueRetried
       /\ RefreshCaught =>
            /\ failedQueue' = <<>>
            /\ \A r \in Req : Queued(r) => requests'[r].st = "rejected"
       /\ RefreshFails => tokens' = [token |-> 0, refreshToken |-> 0]]_vars

\* A refresh succeeded with a request in the queue: both requests were
\* sent twice, the second time with the new token, and the queue is empty.
C26_Witness ==
    /\ ~isRefreshing /\ failedQueue = <<>> /\ tokens.token = 2
    /\ \E r, q \in Req :
        /\ requests[r].retry /\ ~requests[q].retry
        /\ requests[r].sends = 2 /\ requests[q].sends = 2
        /\ requests[r].auth = 2 /\ requests[q].auth = 2

(***************************************************************************)
(* The cloud sync: CloudStorageAdapter of SupabaseStorageAdapter.ts        *)
(* (lines 204-341).  saveReceipt saves on the device and then uploads;     *)
(* syncAll pulls, merges the pull into the device, and pushes the device.  *)
(* The income map and the user profile, which syncAll carries along, are   *)
(* left out.  The server is the environment: an upload or a push that      *)
(* succeeds stores what it was sent, and a pull returns every receipt of   *)
(* the server when lastSync is undefined and some of them otherwise.       *)
(***************************************************************************)
\* What the server holds at the start and what the user saves: the saved
\* versions are newer than the ones of the server.
ServerAtStart == {<<>>, <<StoredReceipt("r1", 10)>>, <<StoredReceipt("r1", 10), StoredReceipt("r2", 10)>>}
CloudSaveArguments == {StoredReceipt("r1", 20), StoredReceipt("r2", 20)}

\* The sub-sequences of a list: what a pull with lastSync set may return.
RECURSIVE SubSeqs(_)
SubSeqs(list) ==
    IF list = <<>> THEN {<<>>}
    ELSE LET rest == SubSeqs(Tail(list))
         IN  rest \cup {<<Head(list)>> \o t : t \in rest}

\* for (const receipt of receipts) await super.saveReceipt(receipt)
\* (lines 273-275); also what Map.set does for each receipt in turn
RECURSIVE storeAll(_, _)
storeAll(stored, receipts) ==
    IF receipts = <<>> THEN stored
    ELSE storeAll(storeReceipt(stored, Head(receipts)), Tail(receipts))

\* mergeReceipts with the local receipts set last
mergeReceipts_LocalWins(local, server) == storeAll(server, local)

\* mergeReceipts (lines 318-328): a Map by id, the local receipts set
\* first and the server receipts set over them
mergeReceipts(local, server) == storeAll(storeAll(<<>>, local), server)

\* POST /sync/pull (lines 262-267): the answers the server may give
pullAnswers(server, lastSync) == IF lastSync = <<>> THEN {server} ELSE SubSeqs(server)

SaveEnded == IF saveCall = <<>> THEN TRUE ELSE saveCall.pc \in {"resolved", "threw"}

InitSync ==
    /\ serverReceipts \in ServerAtStart
    /\ deviceReceipts \in {<<>>, serverReceipts}
    /\ syncInProgress = FALSE
    /\ lastSyncTime = <<>>
    /\ saveCall = <<>>
    /\ syncCall = <<>>
    /\ syncResult = <<>>
    /\ unsent = {}
    /\ TaxIdle /\ ResolverIdle /\ CategoryIdle /\ ConfigIdle /\ DashboardIdle /\ MenuIdle /\ StorageIdle /\ ApiIdle /\ OcrIdle

\* saveReceipt, line 221: await super.saveReceipt(receipt), which throws
\* when the write fails
SaveReceiptLocal(receipt, ok) ==
    /\ SaveEnded
    /\ deviceReceipts' = IF ok THEN storeReceipt(deviceReceipts, receipt) ELSE deviceReceipts
    /\ saveCall' = [receipt |-> receipt, pc |-> IF ok THEN "post" ELSE "threw", uploaded |-> FALSE]
    /\ unsent' = IF ok THEN {r \in unsent : r.id # receipt.id} ELSE unsent
    /\ UNCHANGED <<serverReceipts, syncInProgress, lastSyncTime, syncCall, syncResult>>
    /\ UNCHANGED outsideSync

\* saveReceipt, lines 224-230: the POST of the receipt and the catch that
\* only warns
SaveReceiptUpload(ok) ==
    /\ saveCall # <<>> /\ saveCall.pc = "post"
    /\ saveCall' = [saveCall EXCEPT !.pc = "resolved", !.uploaded = ok]
    /\ serverReceipts' = IF ok THEN storeReceipt(serverReceipts, saveCall.receipt) ELSE serverReceipts
    /\ unsent' = IF ok THEN unsent ELSE unsent \cup {saveCall.receipt}
    /\ UNCHANGED <<deviceReceipts, syncInProgress, lastSyncTime, syncCall, syncResult>>
    /\ UNCHANGED outsideSync

\* syncAll, lines 251-256: a call during a sync returns at once
SyncAll ==
    /\ IF syncInProgress
       THEN /\ syncResult' = [outcome |-> "skipped", pushed |-> <<>>]
            /\ UNCHANGED <<syncInProgress, syncCall>>
       ELSE /\ syncInProgress' = TRUE
            /\ syncCall' = [pc |-> "pull", pulled |-> <<>>]
            /\ UNCHANGED syncResult
    /\ UNCHANGED <<deviceReceipts, serverReceipts, lastSyncTime, saveCall, unsent>>
    /\ UNCHANGED outsideSync

\* how a syncAll that throws ends: catch, throw, finally (lines 291-296)
syncFailed ==
    /\ syncCall' = <<>>
    /\ syncInProgress' = FALSE
    /\ syncResult' = [outcome |-> "failed", pushed |-> <<>>]
    /\ UNCHANGED <<deviceReceipts, serverReceipts, lastSyncTime, unsent>>

\* syncAll, lines 258-267: the pull
SyncPull(ok, answer) ==
    /\ syncCall # <<>> /\ syncCall.pc = "pull"
    /\ IF ok
       THEN /\ answer \in pullAnswers(serverReceipts, lastSyncTime)
            /\ syncCall' = [pc |-> "merge", pulled |-> answer]
            /\ UNCHANGED <<deviceReceipts, serverReceipts, syncInProgress, lastSyncTime, syncResult, unsent>>
       ELSE answer = <<>> /\ syncFailed
    /\ UNCHANGED saveCall
    /\ UNCHANGED outsideSync

\* syncAll, lines 269-276: load, merge, and save every merged receipt
SyncMerge ==
    /\ syncCall # <<>> /\ syncCall.pc = "merge"
    /\ deviceReceipts' = storeAll(deviceReceipts, mergeReceipts(deviceReceipts, syncCall.pulled))
    /\ syncCall' = [syncCall EXCEPT !.pc = "push"]
    /\ UNCHANGED <<serverReceipts, syncInProgress, lastSyncTime, saveCall, syncResult, unsent>>
    /\ UNCHANGED outsideSync

\* syncAll, lines 286-296 and pushLocalChanges (lines 302-312): the push
\* of the receipts of the device
SyncPush(ok) ==
    /\ syncCall # <<>> /\ syncCall.pc = "push"
    /\ IF ok
       THEN /\ serverReceipts' = storeAll(serverReceipts, deviceReceipts)
            /\ lastSyncTime' = <<1>>
            /\ syncCall' = <<>>
            /\ syncInProgress' = FALSE
            /\ syncResult' = [outcome |-> "done", pushed |-> deviceReceipts]
            /\ unsent' = {}
            /\ UNCHANGED deviceReceipts
       ELSE syncFailed
    /\ UNCHANGED saveCall
    /\ UNCHANGED outsideSync

NextSync ==
    \/ \E receipt \in CloudSaveArguments, ok \in BOOLEAN : SaveReceiptLocal(receipt, ok)
    \/ \E ok \in BOOLEAN : SaveReceiptUpload(ok)
    \/ SyncAll
    \/ \E ok \in BOOLEAN, answer \in SubSeqs(serverReceipts) : SyncPull(ok, answer)
    \/ SyncMerge
    \/ \E ok \in BOOLEAN : SyncPush(ok)

SpecSync == InitSync /\ [][NextSync]_vars

(***************************************************************************)
(* The receipt whose upload failed, and the next sync                      *)
(***************************************************************************)
HeldIn(list, receipt) == \E i \in 1 .. Len(list) : list[i] = receipt
HasId(list, id) == \E i \in 1 .. Len(list) : list[i].id = id
VersionIn(list, id) == {list[i] : i \in {j \in 1 .. Len(list) : list[j].id = id}}

\* The steps the claim is about: the upload of a saveReceipt call fails,
\* a sync merges its pull into the device, a sync completes.
UploadFails == saveCall # <<>> /\ saveCall.pc = "post" /\ saveCall'.pc = "resolved" /\ ~saveCall'.uploaded
MergeStep == syncCall # <<>> /\ syncCall.pc = "merge" /\ syncCall' # <<>> /\ syncCall'.pc = "push"
SyncCompletes == syncCall # <<>> /\ syncCall.pc = "push" /\ syncResult' # <<>> /\ syncResult'.outcome = "done" /\ syncCall' = <<>>
KeptWithoutError == UploadFails => (deviceReceipts' = deviceReceipts /\ serverReceipts' = serverReceipts /\ saveCall'.pc # "threw")

\* C25 as stated: a failed upload leaves the receipt on the device and
\* throws nothing, and the next sync that completes sends the server the
\* saved content of every receipt whose upload failed.
C25_FailedUploadIsPushedBySync ==
    [][/\ KeptWithoutError
       /\ SyncCompletes => \A receipt \in unsent : HeldIn(syncResult'.pushed, receipt)]_vars

\* C25 as the code has it: a failed upload leaves the device as it is and
\* throws nothing; the merge of a sync replaces every receipt of the device
\* whose id the pull returned by the version of the server and leaves the
\* others; the sync that completes pushes the list of the device as the
\* merge and the saves since have left it.
C25_ServerVersionWinsBeforePush ==
    [][/\ KeptWithoutError
       /\ MergeStep => \A id \in {"r1", "r2"} :
              VersionIn(deviceReceipts', id) =
                  IF HasId(syncCall.pulled, id) THEN VersionIn(syncCall.pulled, id)
                  ELSE VersionIn(deviceReceipts, id)
       /\ SyncCompletes => syncResult'.pushed = deviceReceipts]_vars

\* The upload of r1 at 20 failed, and the sync that completed afterwards
\* pushed r1 at 10, the version the server had.
C25_Witness ==
    /\ saveCall # <<>> /\ saveCall.pc = "resolved" /\ ~saveCall.uploaded
    /\ saveCall.receipt = StoredReceipt("r1", 20)
    /\ syncResult # <<>> /\ syncResult.outcome = "done"
    /\ HeldIn(syncResult.pushed, StoredReceipt("r1", 10))
    /\ ~HeldIn(serverReceipts, StoredReceipt("r1", 20))


(***************************************************************************)
(* The OCR fallback and the review flag                                    *)
(***************************************************************************)
\* The device result is accepted: it did not throw, its text has at least
\* 10 characters and it yields an amount, a date or a merchant.  A field
\* is yielded when it is truthy, as line 334 counts it: an amount of 0 is
\* counted like a missing one.
YieldsField(device) ==
    \/ (device.fields.amount # <<>> /\ device.fields.amount[1] > 0)
    \/ device.fields.date # <<>>
    \/ device.fields.merchantName # <<>>
DeviceAccepted(device) == ~device.throws /\ device.length >= 10 /\ YieldsField(device)

VisionHigh(c) == c.ocrResult.geminiCategory # <<>> /\ c.ocrResult.geminiCategoryConfidence = "high"
ClassifiedByAi(c) ==
    \/ VisionHigh(c)
    \/ c.isOnline /\ c.hasKey /\ c.answer.kind = "json" /\ c.answer.category # <<>>
AiNotAsked(c) == ~VisionHigh(c) /\ (~c.isOnline \/ ~c.hasKey)
AiRequestFailed(c) == ~VisionHigh(c) /\ c.isOnline /\ c.hasKey /\ c.answer.kind = "throws"

\* C27 as stated: needsAiReview is false only when the category was
\* decided from a successful AI response, and true whenever the device was
\* offline, no key was set or the classification request failed online.
C27_ReviewUnlessAiDecided ==
    parseCall # <<>> =>
        /\ ~parseCall.result.needsAiReview => ClassifiedByAi(parseCall)
        /\ (AiNotAsked(parseCall) \/ AiRequestFailed(parseCall)) => parseCall.result.needsAiReview

\* C27 as the code has it: needsAiReview is true exactly when no AI was
\* asked (offline or no key, and no high-confidence category from the
\* vision OCR); once the classification request is made the flag is false,
\* whatever became of the request.
C27_ReviewOnlyWhenAiNotAsked ==
    parseCall # <<>> => (parseCall.result.needsAiReview <=> AiNotAsked(parseCall))

\* Offline with a key: classified by keywords and flagged for review.
C27_Witness ==
    /\ parseCall # <<>> /\ ~parseCall.isOnline /\ parseCall.hasKey /\ ~VisionHigh(parseCall)
    /\ parseCall.result.needsAiReview /\ parseCall.result.classificationMethod = "offline"
    /\ parseCall.result.category = parseCall.keyword.category

=============================================================================
